---- MODULE Spec2Model ----
(***************************************************************************)
(* A model of the IATA BCBP Type-M decoder of iata_bcbp.                   *)
(*                                                                         *)
(* The decoder of src/src/de/parser.rs is a chain of nom "complete"        *)
(* combinators over the remaining input slice.  Each combinator is a pure  *)
(* function (remaining input) -> Ok(rest, value) | Err(kind, context); it  *)
(* is modelled by an operator of the same name returning a record.  The    *)
(* loop of bcbp() and the prologue and epilogue of from_str() are the      *)
(* actions of the state machine.                                           *)
(*                                                                         *)
(* An input is a sequence of bytes (0..255); a Rust &str is valid UTF-8,   *)
(* so a non-ASCII character is a lead byte followed by continuation bytes. *)
(***************************************************************************)
EXTENDS Integers, Sequences, FiniteSets, TLC

VARIABLES
    input,                    \* the string handed to from_str
    pc,                       \* position inside from_str / bcbp
    rest,                     \* bcbp: the `input` slice still to be parsed
    number_of_legs_encoded,   \* bcbp: value of the leg-count field
    passenger_name,           \* bcbp: header field
    electronic_ticket_indicator,
    legs,                     \* bcbp: Vec<Leg> collected so far
    metadata,                 \* bcbp: ConditionalMetadata
    security_data_v,          \* bcbp: SecurityData
    nom_err,                  \* the nom error bcbp returned, if any
    result,                   \* the Result<Bcbp> from_str returned
    strict,                   \* parse: validate the fields while parsing
    field_value,              \* ffi: the last call of BcbpCopyFlightLegField
    offset,                   \* Scanner: offset from the start of input, in bytes
    scanned,                  \* Scanner: the last call and what it returned
    leg_read                  \* lib.rs: the fields read of the leg being parsed

vars == <<input, pc, rest, number_of_legs_encoded, passenger_name,
          electronic_ticket_indicator, legs, metadata, security_data_v,
          nom_err, result, strict, field_value, offset, scanned, leg_read>>

----------------------------------------------------------------------------
(* Bytes and text.                                                         *)

\* The ASCII code of a character, given as a one-character string, for the
\* characters the inputs are written in.
Digits == << "0", "1", "2", "3", "4", "5", "6", "7", "8", "9" >>
Upper ==
    << "A", "B", "C", "D", "E", "F", "G", "H", "I", "J", "K", "L", "M",
       "N", "O", "P", "Q", "R", "S", "T", "U", "V", "W", "X", "Y", "Z" >>
Lower ==
    << "a", "b", "c", "d", "e", "f", "g", "h", "i", "j", "k", "l", "m",
       "n", "o", "p", "q", "r", "s", "t", "u", "v", "w", "x", "y", "z" >>
IndexOf(t, c) == CHOOSE i \in 1..Len(t) : t[i] = c
Ord(c) ==
    CASE c = " " -> 32
      [] c = "+" -> 43
      [] c = "/" -> 47
      [] c = ">" -> 62
      [] c = "^" -> 94
      [] \E i \in 1..10 : Digits[i] = c -> 47 + IndexOf(Digits, c)
      [] \E i \in 1..26 : Upper[i] = c -> 64 + IndexOf(Upper, c)
      [] \E i \in 1..26 : Lower[i] = c -> 96 + IndexOf(Lower, c)

\* The bytes of a text given as a tuple of one-character strings.
Str(t) == [i \in 1..Len(t) |-> Ord(t[i])]

\* n spaces.
Spaces(n) == [i \in 1..n |-> Ord(" ")]

Drop(s, n) == SubSeq(s, n + 1, Len(s))
Take(s, n) == SubSeq(s, 1, n)

\* Option<T>: None is the empty tuple, Some(x) the one-element tuple.
None == << >>
Some(x) == << x >>

----------------------------------------------------------------------------
(* Character classes (std, as used by the decoder).                        *)

is_ascii_byte(b) == b <= 127
is_ascii(s) == \A i \in 1..Len(s) : is_ascii_byte(s[i])
is_ascii_digit(b) == b >= 48 /\ b <= 57
is_ascii_hexdigit(b) ==
    \/ is_ascii_digit(b)
    \/ (b >= 65 /\ b <= 70)
    \/ (b >= 97 /\ b <= 102)
is_ascii_lowercase(b) == b >= 97 /\ b <= 122

\* A digit test that takes the lowercase letters too.
is_ascii_uppercase_hexdigit_any(c) == is_ascii_hexdigit(c)

\* de/parser.rs: uppercase hexadecimal digit.
is_ascii_uppercase_hexdigit(c) == is_ascii_hexdigit(c) /\ ~is_ascii_lowercase(c)

\* char::to_digit(16) of a hexadecimal digit.
HexDigitValue(b) ==
    IF is_ascii_digit(b) THEN b - 48
    ELSE IF b >= 65 /\ b <= 70 THEN b - 55
    ELSE b - 87

\* u8::from_str_radix(s, 16) for a string of one or two hexadecimal digits.
from_str_radix_16(s) ==
    IF Len(s) = 1 THEN HexDigitValue(s[1])
    ELSE 16 * HexDigitValue(s[1]) + HexDigitValue(s[2])

----------------------------------------------------------------------------
(* The field catalog: de/field.rs, Field::len.                             *)

len(field_id) ==
    CASE field_id = "FormatCode" -> 1
      [] field_id = "AirlineIndividualUse" -> 0
      [] field_id = "NumberOfLegsEncoded" -> 1
      [] field_id = "FieldSizeOfVariableSizeField" -> 2
      [] field_id = "OperatingCarrierPnrCode" -> 7
      [] field_id = "BeginningOfVersionNumber" -> 1
      [] field_id = "VersionNumber" -> 1
      [] field_id = "FieldSizeOfStructuredMessageUnique" -> 2
      [] field_id = "PassengerName" -> 20
      [] field_id = "SourceOfCheckIn" -> 1
      [] field_id = "SourceOfBoardingPassIssuance" -> 1
      [] field_id = "PassengerDescription" -> 1
      [] field_id = "DocumentType" -> 1
      [] field_id = "FieldSizeOfStructuredMessageRepeated" -> 2
      [] field_id = "SelecteeIndicator" -> 1
      [] field_id = "MarketingCarrierDesignator" -> 3
      [] field_id = "FrequentFlyerAirlineDesignator" -> 3
      [] field_id = "AirlineDesignatorOfBoardingPassIssuer" -> 3
      [] field_id = "DateOfIssueOfBoardingPass" -> 4
      [] field_id = "BaggageTagLicensePlateNumbers" -> 13
      [] field_id = "BeginningOfSecurityData" -> 1
      [] field_id = "FromCityAirportCode" -> 3
      [] field_id = "TypeOfSecurityData" -> 1
      [] field_id = "LengthOfSecurityData" -> 2
      [] field_id = "SecurityData" -> 0
      [] field_id = "FirstNonConsecutiveBaggageTagLicensePlateNumber" -> 13
      [] field_id = "SecondNonConsecutiveBaggageTagLicensePlateNumber" -> 13
      [] field_id = "ToCityAirportCode" -> 3
      [] field_id = "OperatingCarrierDesignator" -> 3
      [] field_id = "FlightNumber" -> 5
      [] field_id = "DateOfFlight" -> 3
      [] field_id = "CompartmentCode" -> 1
      [] field_id = "IdAdIndicator" -> 1
      [] field_id = "SeatNumber" -> 4
      [] field_id = "CheckInSequenceNumber" -> 5
      [] field_id = "InternationalDocumentVerification" -> 1
      [] field_id = "PassengerStatus" -> 1
      [] field_id = "FreeBaggageAllowance" -> 3
      [] field_id = "AirlineNumericCode" -> 3
      [] field_id = "DocumentFormSerialNumber" -> 10
      [] field_id = "FrequentFlyerNumber" -> 16
      [] field_id = "ElectronicTicketIndicator" -> 1
      [] field_id = "FastTrack" -> 1

----------------------------------------------------------------------------
(* nom 5 "complete" combinators.  A result is a record:                    *)
(*   ok = TRUE : rest is the remaining input, val the value;               *)
(*   ok = FALSE: nom::Err::Error, kind its ErrorKind, ctx the innermost    *)
(*               context() label ("" when there is none), at the number of *)
(*               bytes of the input from the place of the error on.        *)
(* No complete combinator ever returns nom::Err::Incomplete.               *)

NomOk(r, v) == [ok |-> TRUE, rest |-> r, val |-> v, kind |-> "", ctx |-> "", at |-> 0]
NomError(i, k) == [ok |-> FALSE, rest |-> << >>, val |-> << >>, kind |-> k, ctx |-> "", at |-> Len(i)]
\* A failed assert!: the parser does not return.
NomPanic(i) == NomError(i, "Panic")

\* An error raised while parsing a slice that `after` follows in the input:
\* the error holds the place in the slice, and convert_error finds it in the
\* whole input.
within(r, after) ==
    IF r.ok THEN r ELSE [r EXCEPT !.at = @ + Len(after)]

\* nom::error::context: labels an error that carries no label yet.
context(name, r) ==
    IF r.ok \/ r.ctx # "" THEN r ELSE [r EXCEPT !.ctx = name]

\* nom::bytes::complete::take
take(count, i) ==
    IF Len(i) < count THEN NomError(i, "Eof")
    ELSE NomOk(Drop(i, count), Take(i, count))

\* nom::character::complete::anychar
anychar(i) ==
    IF Len(i) = 0 THEN NomError(i, "Eof")
    ELSE NomOk(Drop(i, 1), i[1])

\* nom::character::complete::char
char(c, i) ==
    IF Len(i) > 0 /\ i[1] = c THEN NomOk(Drop(i, 1), c)
    ELSE NomError(i, "Char")

\* nom::bytes::complete::take_while_m_n(n, n, is_ascii_uppercase_hexdigit)
take_while_n_hex(n, i) ==
    IF Len(i) >= n /\ \A k \in 1..n : is_ascii_uppercase_hexdigit(i[k])
    THEN NomOk(Drop(i, n), Take(i, n))
    ELSE NomError(i, "TakeWhileMN")

----------------------------------------------------------------------------
(* de/parser.rs: the field parsers.                                        *)

\* fn hex_byte_literal: a one- or two-digit uppercase hexadecimal literal.
hex_byte_literal(i, length) ==
    IF ~(length = 1 \/ length = 2) THEN NomPanic(i) ELSE
    LET r == take_while_n_hex(length, i)
    IN  IF r.ok THEN NomOk(r.rest, from_str_radix_16(r.val)) ELSE r

\* A variable-size field that returns its data without moving past it.
variable_size_field_data_peek(i, field_id) ==
    LET r == context(field_id, hex_byte_literal(i, 2))
    IN  IF ~r.ok THEN r
        ELSE IF Len(r.rest) < r.val THEN NomError(r.rest, "Eof")
        ELSE NomOk(r.rest, Take(r.rest, r.val))

\* A variable-size field that takes what is left when its size is too large.
variable_size_field_data_truncating(i, field_id) ==
    LET r == context(field_id, hex_byte_literal(i, 2))
    IN  IF ~r.ok THEN r
        ELSE IF Len(r.rest) < r.val THEN NomOk(<< >>, r.rest)
        ELSE NomOk(Drop(r.rest, r.val), Take(r.rest, r.val))

\* fn variable_size_field_data: a 2-hex-digit size, then that many bytes.
variable_size_field_data(i, field_id) ==
    LET r == context(field_id, hex_byte_literal(i, 2))
    IN  IF ~r.ok THEN r
        ELSE IF r.val = 0 THEN NomOk(r.rest, << >>)
        ELSE take(r.val, r.rest)

\* A variable-size field that has to be there.
optional_variable_size_field_data_required(i, field_id) ==
    variable_size_field_data(i, field_id)

\* fn optional_variable_size_field_data
optional_variable_size_field_data(i, field_id) ==
    IF Len(i) = 0 THEN NomOk(i, i)
    ELSE variable_size_field_data(i, field_id)

\* A leg count read as a literal of three digits.
number_of_legs_of_three_digits(i) ==
    context("NumberOfLegsEncoded", hex_byte_literal(i, 3))

\* fn number_of_legs
number_of_legs(i) == context("NumberOfLegsEncoded", hex_byte_literal(i, 1))

\* A format check that ignores the case of the letter.
format_code_any_case(i) ==
    context("FormatCode",
            IF Len(i) > 0 /\ i[1] \in { Ord("M"), Ord("m") } THEN NomOk(Drop(i, 1), i[1])
            ELSE NomError(i, "Char"))

\* fn format_code_m
format_code_m(i) == context("FormatCode", char(Ord("M"), i))

\* A text without the spaces at its end.
RECURSIVE TrimEnd(_)
TrimEnd(t) ==
    IF Len(t) > 0 /\ t[Len(t)] = 32 THEN TrimEnd(Take(t, Len(t) - 1)) ELSE t

\* A string field that consumes its bytes and returns them trimmed.
string_field_trimmed(i, field_id) ==
    LET r == context(field_id, take(len(field_id), i))
    IN  IF r.ok THEN NomOk(r.rest, TrimEnd(r.val)) ELSE r

\* A string field that takes what is left when the input is too short.
string_field_short(i, field_id) ==
    context(field_id,
            IF Len(i) < len(field_id) THEN NomOk(<< >>, i)
            ELSE take(len(field_id), i))

\* fn string_field: exactly Field::len bytes.
string_field(i, field_id) == context(field_id, take(len(field_id), i))

\* A string field that is read even when no input is left.
optional_string_field_required(i, field_id) ==
    LET r == string_field(i, field_id)
    IN  IF r.ok THEN NomOk(r.rest, Some(r.val)) ELSE r

\* fn optional_string_field
optional_string_field(i, field_id) ==
    IF Len(i) = 0 THEN NomOk(i, None)
    ELSE LET r == string_field(i, field_id)
         IN  IF r.ok THEN NomOk(r.rest, Some(r.val)) ELSE r

\* fn character_field: `assert_eq!(field_id.len(), 1)`, then the character.
character_field(i, field_id) ==
    IF len(field_id) # 1 THEN NomPanic(i) ELSE context(field_id, anychar(i))

\* fn optional_character_field
optional_character_field(i, field_id) ==
    IF Len(i) = 0 THEN NomOk(i, None)
    ELSE LET r == character_field(i, field_id)
         IN  IF r.ok THEN NomOk(r.rest, Some(r.val)) ELSE r

\* A version number whose marker is looked for even in an empty section.
optional_version_number_required(i) ==
    LET r == context("BeginningOfVersionNumber", char(Ord(">"), i))
    IN  IF ~r.ok THEN r
        ELSE optional_character_field(r.rest, "VersionNumber")

\* A version number that is taken as absent when the marker is not there.
optional_version_number_lenient(i) ==
    IF Len(i) = 0 \/ i[1] # Ord(">") THEN NomOk(i, None)
    ELSE optional_character_field(Drop(i, 1), "VersionNumber")

\* fn optional_version_number: '>' and the version character.
optional_version_number(i) ==
    IF Len(i) = 0 THEN NomOk(i, None)
    ELSE LET r == context("BeginningOfVersionNumber", char(Ord(">"), i))
         IN  IF ~r.ok THEN r
             ELSE optional_character_field(r.rest, "VersionNumber")

\* ConditionalMetadata::default()
DefaultConditionalMetadata ==
    [ version_number |-> None,
      passenger_description |-> None,
      source_of_check_in |-> None,
      source_of_boarding_pass_issuance |-> None,
      date_of_issue_of_boarding_pass |-> None,
      document_type |-> None,
      airline_designator_of_boarding_pass_issuer |-> None,
      baggage_tag_license_plate_numbers |-> None,
      first_non_consecutive_baggage_tag_license_plate_numbers |-> None,
      second_non_consecutive_baggage_tag_license_plate_numbers |-> None ]

\* A run of consecutive field reads, each followed by `?`: the fields of
\* `fs` are read in order from `i`, every one from what the one before left;
\* the value is the tuple of the fields' values.  An entry of fs is
\* <<parser, field>>.
field(i, fd) ==
    CASE fd[1] = "string_field" -> string_field(i, fd[2])
      [] fd[1] = "character_field" -> character_field(i, fd[2])
      [] fd[1] = "optional_string_field" -> optional_string_field(i, fd[2])
      [] fd[1] = "optional_character_field" -> optional_character_field(i, fd[2])

RECURSIVE fields(_, _, _)
fields(i, fs, acc) ==
    IF fs = << >> THEN NomOk(i, acc)
    ELSE LET r == field(i, Head(fs))
         IN  IF r.ok THEN fields(r.rest, Tail(fs), Append(acc, r.val)) ELSE r

\* fn conditional_metadata: the fields read from the unique section.
\* (The first is read under the label of Field::PassengerStatus.)
UniqueFields ==
    << << "optional_character_field", "PassengerStatus" >>,
       << "optional_character_field", "SourceOfCheckIn" >>,
       << "optional_character_field", "SourceOfBoardingPassIssuance" >>,
       << "optional_string_field", "DateOfIssueOfBoardingPass" >>,
       << "optional_character_field", "DocumentType" >>,
       << "optional_string_field", "AirlineDesignatorOfBoardingPassIssuer" >>,
       << "optional_string_field", "BaggageTagLicensePlateNumbers" >>,
       << "optional_string_field", "FirstNonConsecutiveBaggageTagLicensePlateNumber" >>,
       << "optional_string_field", "SecondNonConsecutiveBaggageTagLicensePlateNumber" >> >>

\* fn conditional_metadata: version number and unique section of the first leg.
conditional_metadata(i) ==
    LET v == optional_version_number(i)
    IN  IF ~v.ok THEN v ELSE
    LET u == optional_variable_size_field_data(v.rest, "FieldSizeOfStructuredMessageUnique")
    IN  IF ~u.ok THEN u ELSE
    LET f == within(fields(u.val, UniqueFields, << >>), u.rest)
    IN  IF ~f.ok THEN f ELSE
        NomOk(u.rest,
              [ version_number |-> v.val,
                passenger_description |-> f.val[1],
                source_of_check_in |-> f.val[2],
                source_of_boarding_pass_issuance |-> f.val[3],
                date_of_issue_of_boarding_pass |-> f.val[4],
                document_type |-> f.val[5],
                airline_designator_of_boarding_pass_issuer |-> f.val[6],
                baggage_tag_license_plate_numbers |-> f.val[7],
                first_non_consecutive_baggage_tag_license_plate_numbers |-> f.val[8],
                second_non_consecutive_baggage_tag_license_plate_numbers |-> f.val[9] ])

\* fn leg: the mandatory items common to all legs.
MandatoryFields ==
    << << "string_field", "OperatingCarrierPnrCode" >>,
       << "string_field", "FromCityAirportCode" >>,
       << "string_field", "ToCityAirportCode" >>,
       << "string_field", "OperatingCarrierDesignator" >>,
       << "string_field", "FlightNumber" >>,
       << "string_field", "DateOfFlight" >>,
       << "character_field", "CompartmentCode" >>,
       << "string_field", "SeatNumber" >>,
       << "string_field", "CheckInSequenceNumber" >>,
       << "character_field", "PassengerStatus" >> >>

\* fn leg: the fields read from the repeated section.
RepeatedFields ==
    << << "optional_string_field", "AirlineNumericCode" >>,
       << "optional_string_field", "DocumentFormSerialNumber" >>,
       << "optional_character_field", "SelecteeIndicator" >>,
       << "optional_character_field", "InternationalDocumentVerification" >>,
       << "optional_string_field", "MarketingCarrierDesignator" >>,
       << "optional_string_field", "FrequentFlyerAirlineDesignator" >>,
       << "optional_string_field", "FrequentFlyerNumber" >>,
       << "optional_character_field", "IdAdIndicator" >>,
       << "optional_string_field", "FreeBaggageAllowance" >>,
       << "optional_character_field", "FastTrack" >> >>

\* fn leg is a straight line of parsers, each followed by `?`.  It is written
\* here back to front, every step an operator that is handed the results of
\* the steps before it: leg, leg_conditional_item_data, leg_metadata,
\* leg_repeated_size, leg_repeated_items, leg_value.

\* Airline individual use that is present even when it is empty.
airline_individual_use_always(individual_use_data) == Some(individual_use_data)

\* fn leg: anything remaining in the section is ascribed to airline
\* individual use.
airline_individual_use(individual_use_data) ==
    IF Len(individual_use_data) > 0 THEN Some(individual_use_data) ELSE None

\* fn leg, the end: the Leg built from the fields, and the first leg's metadata.
\*   m: the mandatory fields, c: (remainder, conditional_item_data),
\*   md: (conditional_item_data, optional_conditional_metadata),
\*   rp: (individual_use_data, conditional_item_data), o: the repeated fields.
leg_value(m, c, md, rp, o) ==
    IF ~o.ok THEN o ELSE
    NomOk(c.rest,
      << [ operating_carrier_pnr_code |-> m.val[1],
           from_city_airport_code |-> m.val[2],
           to_city_airport_code |-> m.val[3],
           operating_carrier_designator |-> m.val[4],
           flight_number |-> m.val[5],
           date_of_flight |-> m.val[6],
           compartment_code |-> m.val[7],
           seat_number |-> m.val[8],
           check_in_sequence_number |-> m.val[9],
           passenger_status |-> m.val[10],
           airline_numeric_code |-> o.val[1],
           document_form_serial_number |-> o.val[2],
           selectee_indicator |-> o.val[3],
           international_document_verification |-> o.val[4],
           marketing_carrier_designator |-> o.val[5],
           frequent_flyer_airline_designator |-> o.val[6],
           frequent_flyer_number |-> o.val[7],
           id_ad_indicator |-> o.val[8],
           free_baggage_allowance |-> o.val[9],
           fast_track |-> o.val[10],
           airline_individual_use |-> airline_individual_use(rp.rest) ],
         md.val >>)

\* The repeated items, with the bytes the repeated section has after its last
\* field handed on to airline individual use.
leg_repeated_items_keeping_rest(m, c, md, rp) ==
    IF ~rp.ok THEN rp
    ELSE leg_value(m, c, md,
            [rp EXCEPT !.rest = Drop(rp.val, 42) \o @],
            within(fields(rp.val, RepeatedFields, << >>), rp.rest \o c.rest))

\* fn leg: the optional fields, read from the repeated section.
leg_repeated_items(m, c, md, rp) ==
    IF ~rp.ok THEN rp
    ELSE leg_value(m, c, md, rp,
            within(fields(rp.val, RepeatedFields, << >>), rp.rest \o c.rest))

\* fn leg: the repeated section, carved out of the conditional section.
leg_repeated_size(m, c, md) ==
    IF ~md.ok THEN md
    ELSE leg_repeated_items(m, c, md,
            within(optional_variable_size_field_data(md.rest, "FieldSizeOfStructuredMessageRepeated"),
                   c.rest))

\* fn leg: `conditional_metadata(..).map(|(input, data)| (input, Some(data)))`
map_some(r) == IF r.ok THEN NomOk(r.rest, Some(r.val)) ELSE r

\* The pass metadata read from the conditional section of every leg.
leg_metadata_every_leg(m, c, is_first_leg) ==
    IF ~c.ok THEN c
    ELSE leg_repeated_size(m, c, within(map_some(conditional_metadata(c.val)), c.rest))

\* fn leg: the pass metadata, read from the first leg's conditional section only.
leg_metadata(m, c, is_first_leg) ==
    IF ~c.ok THEN c
    ELSE leg_repeated_size(m, c,
            IF is_first_leg THEN within(map_some(conditional_metadata(c.val)), c.rest)
            ELSE NomOk(c.val, None))

\* fn leg: the conditional section, carved out of the input.
leg_conditional_item_data(m, is_first_leg) ==
    IF ~m.ok THEN m
    ELSE leg_metadata(m, variable_size_field_data(m.rest, "FieldSizeOfVariableSizeField"),
                      is_first_leg)

\* fn leg.  The value is <<Leg, Option<ConditionalMetadata>>>.
leg(i, is_first_leg) ==
    leg_conditional_item_data(fields(i, MandatoryFields, << >>), is_first_leg)

\* SecurityData::default()
DefaultSecurityData == [type_of_security_data |-> None, security_data |-> None]

\* A security section that is taken as absent when it does not start with '^'.
security_data_lenient(i) ==
    IF Len(i) = 0 \/ i[1] # Ord("^") THEN NomOk(i, DefaultSecurityData) ELSE
    LET t == character_field(Drop(i, 1), "TypeOfSecurityData")
    IN  IF ~t.ok THEN t ELSE
    LET d == variable_size_field_data(t.rest, "LengthOfSecurityData")
    IN  IF ~d.ok THEN d ELSE
        NomOk(d.rest,
              [ type_of_security_data |-> Some(t.val),
                security_data |-> IF Len(d.val) > 0 THEN Some(d.val) ELSE None ])

\* A security section whose length field may be missing.
security_data_optional_length(i) ==
    IF Len(i) = 0 THEN NomOk(i, DefaultSecurityData) ELSE
    LET b == context("BeginningOfSecurityData", char(Ord("^"), i))
    IN  IF ~b.ok THEN b ELSE
    LET t == character_field(b.rest, "TypeOfSecurityData")
    IN  IF ~t.ok THEN t ELSE
    LET d == optional_variable_size_field_data(t.rest, "LengthOfSecurityData")
    IN  IF ~d.ok THEN d ELSE
        NomOk(d.rest,
              [ type_of_security_data |-> Some(t.val),
                security_data |-> IF Len(d.val) > 0 THEN Some(d.val) ELSE None ])

\* fn security_data: '^', the type character, the length and the payload.
security_data(i) ==
    IF Len(i) = 0 THEN NomOk(i, DefaultSecurityData) ELSE
    LET b == context("BeginningOfSecurityData", char(Ord("^"), i))
    IN  IF ~b.ok THEN b ELSE
    LET t == character_field(b.rest, "TypeOfSecurityData")
    IN  IF ~t.ok THEN t ELSE
    LET d == variable_size_field_data(t.rest, "LengthOfSecurityData")
    IN  IF ~d.ok THEN d ELSE
        NomOk(d.rest,
              [ type_of_security_data |-> Some(t.val),
                security_data |-> IF Len(d.val) > 0 THEN Some(d.val) ELSE None ])

----------------------------------------------------------------------------
(* The inputs.  The decoder is a function of its input string; the model   *)
(* runs it on every string of a bounded family built from the pieces of    *)
(* the wire format: well-formed passes of 0..MaxLegs legs, each with a     *)
(* declared leg count that may or may not match, with and without          *)
(* conditional sections and security data, every prefix of some of them,   *)
(* and some of them with a non-ASCII character put in.                     *)

\* The largest number of legs an input carries.
MaxLegs == 2
\* The longest security payload an input carries.
MaxSecurityLen == 2

HexChar(d) == IF d < 10 THEN 48 + d ELSE 55 + d
\* n in 0..255 as two uppercase hexadecimal digits.
Hex2(n) == << HexChar(n \div 16), HexChar(n % 16) >>

NameText == Str(<< "D","E","S","M","A","R","A","I","S","/","L","U","C"," "," "," "," "," "," "," " >>)

\* The mandatory fields of the k-th leg (35 bytes), different for every leg.
MandatoryText(k) ==
    Str(<< "A","B","C","1","2" >>) \o << 48 + k >> \o Str(<< " " >>)
      \o Str(<< "Y","U","L" >>) \o Str(<< "F","R","A" >>) \o Str(<< "A","C"," " >>)
      \o Str(<< "0","8","3" >>) \o << 48 + k >> \o Str(<< " " >>)
      \o Str(<< "3","2","6" >>) \o Str(<< "J" >>) \o Str(<< "0","0","1","A" >>)
      \o Str(<< "0","0","2","5"," " >>) \o << 48 + k >>

UniqueText == Str(<< "1","W","W","6","2","2","5","B","A","C"," " >>)
RepeatedText == Str(<< "0","1","4","1","2","3","4","5","6","7","8","9","0"," ","1" >>)
IndividualUseText == Str(<< "L","X" >>)

\* A conditional section: (first leg only) '>', version, unique section;
\* then the repeated section and the airline individual use.
SectionText(is_first, u, r, a) ==
    (IF is_first THEN Str(<< ">","6" >>) \o Hex2(Len(u)) \o u ELSE << >>)
      \o Hex2(Len(r)) \o r \o a

\* The conditional sections the legs of the inputs carry.
SectionTexts(is_first) ==
    { << >>,
      SectionText(is_first, UniqueText, RepeatedText, IndividualUseText) }

\* A leg: the mandatory fields, the size of the conditional section, the section.
LegText(m, sect) == m \o Hex2(Len(sect)) \o sect

LegTexts(k) ==
    { LegText(m, sect) :
        m \in (IF k = 1 THEN {MandatoryText(k), Spaces(35)} ELSE {MandatoryText(k)}),
        sect \in SectionTexts(k = 1) }

\* The concatenations of n legs.
RECURSIVE LegsTexts(_)
LegsTexts(n) ==
    IF n = 0 THEN { << >> }
    ELSE { p \o l : p \in LegsTexts(n - 1), l \in LegTexts(n) }

PayloadText == Str(<< "G","I","W","V","C","5","E","H","7","J","N","T" >>)

\* What follows the last leg: nothing, a security section with a payload of
\* 0..MaxSecurityLen bytes (whole, one byte short, or followed by a '+'), or
\* a malformed start of one.
TailTexts ==
    { << >>, Str(<< "+" >>), Str(<< "+","1","0","0" >>), Str(<< "^" >>),
      Str(<< "^","1" >>), Str(<< "^","1","0" >>), Str(<< "^","1","Y","Y" >>),
      Str(<< "^","1","0","a" >>) }
    \cup { Str(<< "^","1" >>) \o Hex2(n) \o Take(PayloadText, n) : n \in 0..MaxSecurityLen }
    \cup { Str(<< "^","1" >>) \o Hex2(n) \o Take(PayloadText, n - 1) : n \in 1..MaxSecurityLen }
    \cup { Str(<< "^","1" >>) \o Hex2(n) \o Take(PayloadText, n) \o Str(<< "+" >>) : n \in 0..MaxSecurityLen }

\* The leg-count bytes: the digits up to MaxLegs + 1, a hexadecimal letter
\* and a letter that is no digit at all.
CountBytes == { 48 + n : n \in 0..(MaxLegs + 1) } \cup { Ord("A"), Ord("X") }

HeaderTexts ==
    { << f, c >> \o n \o << e >> :
        f \in { Ord("M") }, c \in CountBytes,
        n \in { NameText }, e \in { Ord("E") } }

\* Passes: header, 0..MaxLegs legs, tail.
PassTexts ==
    { h \o l \o t :
        h \in HeaderTexts,
        l \in UNION { LegsTexts(n) : n \in 0..MaxLegs },
        t \in TailTexts }

\* n legs, each with its fields set and its conditional section.
RECURSIVE FullLegs(_)
FullLegs(n) ==
    IF n = 0 THEN << >>
    ELSE FullLegs(n - 1)
           \o LegText(MandatoryText(n),
                      SectionText(n = 1, UniqueText, RepeatedText, IndividualUseText))
\* The longest pass of n legs, declaring n legs, with its security section.
FullText(n) ==
    << Ord("M"), 48 + n >> \o NameText \o << Ord("E") >>
      \o FullLegs(n)
      \o Str(<< "^","1" >>) \o Hex2(MaxSecurityLen) \o Take(PayloadText, MaxSecurityLen)
\* A one-leg pass whose fields are all blank.
BlankText ==
    << Ord("M"), 49 >> \o Spaces(20) \o << 32 >> \o Spaces(35) \o Hex2(0)

\* Every prefix of a text.
Prefixes(t) == { Take(t, n) : n \in 0..Len(t) }

\* Other format codes in front of an otherwise valid pass.
OtherFormatTexts ==
    { << c >> \o Drop(FullText(1), 1) : c \in { Ord("m"), Ord("S"), Ord(" "), Ord("1") } }

\* Conditional sections in every shape.  The whole unique section (50
\* bytes: every field of the list) and the whole repeated section (42 bytes).
UniqueFullText ==
    UniqueText
      \o Str(<< "0","0","1","4","1","2","3","4","5","6","0","0","3" >>)
      \o Str(<< "0","0","1","4","1","2","3","4","5","6","0","1","0" >>)
      \o Str(<< "0","0","1","4","1","2","3","4","5","6","0","2","0" >>)
RepeatedFullText ==
    Str(<< "0","1","4","1","2","3","4","5","6","7","8","9","0"," ","1","A","C"," ","A","C"," " >>)
      \o Str(<< "1","2","3","4","5","6","7","8","9","0","1","2","3"," "," "," " >>)
      \o Str(<< " ","2","0","K","Y" >>)

\* The lengths at which a section ends after a whole field.
UniqueBoundaries == << 0, 1, 2, 3, 7, 8, 11, 24, 37, 50 >>
RepeatedBoundaries == << 0, 3, 13, 14, 15, 18, 21, 37, 38, 41, 42 >>
Range(t) == { t[k] : k \in 1..Len(t) }

\* Bytes a section carries after the last field of its list.
ReservedText == Str(<< "Z","Z" >>)

\* Unique and repeated sections: ending at a field boundary, ending inside a
\* field, and going on after the last field.
UniqueTexts ==
    { Take(UniqueFullText, n) : n \in Range(UniqueBoundaries) \cup { 5 } }
      \cup { UniqueFullText \o ReservedText }
RepeatedTexts ==
    { Take(RepeatedFullText, n) : n \in Range(RepeatedBoundaries) \cup { 5 } }
      \cup { RepeatedFullText \o ReservedText }

\* A nested section whose declared size is d bytes more than it has.
SectionTextOversize(is_first, u, du, r, dr, a) ==
    (IF is_first THEN Str(<< ">","6" >>) \o Hex2(Len(u) + du) \o u ELSE << >>)
      \o Hex2(Len(r) + dr) \o r \o a

\* The conditional sections of a first leg.
FirstSectionTexts ==
    { SectionText(TRUE, u, RepeatedText, IndividualUseText) : u \in UniqueTexts }
      \cup { SectionText(TRUE, UniqueText, r, a) :
               r \in RepeatedTexts, a \in { << >>, IndividualUseText } }
      \cup { Str(<< ">" >>), Str(<< ">","6" >>), Str(<< ">","6","0" >>),
             Str(<< ">","6","0","0" >>), Str(<< ">","6","0","0","0","0" >>),
             Str(<< ">","6","0","0","0" >>),
             Str(<< ">","6" >>) \o Hex2(Len(UniqueText)) \o UniqueText,
             Str(<< ">","6" >>) \o Hex2(Len(UniqueText)) \o UniqueText \o Str(<< "0" >>),
             Str(<< ">","6","0","0","0","0","L","X" >>),
             Str(<< "+","6","0","0","0","0" >>),
             Str(<< "0","0","L","X" >>),
             Hex2(Len(RepeatedText)) \o RepeatedText }
      \cup { SectionTextOversize(TRUE, UniqueText, 1, RepeatedText, 0, << >>),
             SectionTextOversize(TRUE, UniqueText, 20, RepeatedText, 0, << >>),
             SectionTextOversize(TRUE, UniqueText, 0, RepeatedText, 1, << >>),
             SectionTextOversize(TRUE, UniqueText, 0, RepeatedText, 3, IndividualUseText) }

\* The conditional sections of a later leg.
LaterSectionTexts ==
    { SectionText(FALSE, << >>, r, a) :
        r \in RepeatedTexts, a \in { << >>, IndividualUseText } }
      \cup { SectionText(TRUE, UniqueText, RepeatedText, IndividualUseText),
             Str(<< ">","6","0","0","0","0" >>),
             Str(<< "0" >>),
             SectionTextOversize(FALSE, << >>, 0, RepeatedText, 1, << >>),
             SectionTextOversize(FALSE, << >>, 0, RepeatedText, 3, IndividualUseText) }

\* What follows the legs of these passes.
SectionTailTexts == { << >>, Str(<< "^","1","0","0" >>) }

\* Passes of one and two legs with these sections, and one-leg passes whose
\* leg declares d bytes more of conditional section than the input has.
SectionPassTexts ==
    { << Ord("M"), 49 >> \o NameText \o << Ord("E") >> \o LegText(MandatoryText(1), sect) \o t :
        sect \in FirstSectionTexts, t \in SectionTailTexts }
      \cup { << Ord("M"), 50 >> \o NameText \o << Ord("E") >>
               \o LegText(MandatoryText(1), first) \o LegText(MandatoryText(2), sect) \o t :
             first \in SectionTexts(TRUE), sect \in LaterSectionTexts, t \in SectionTailTexts }
      \cup { << Ord("M"), 49 >> \o NameText \o << Ord("E") >>
               \o MandatoryText(1) \o Hex2(Len(sect) + d) \o sect :
             sect \in SectionTexts(TRUE), d \in { 1, 200 } }

\* Size fields that are no uppercase hexadecimal literal, and one-leg passes
\* with one in the place of the size of the conditional section, of the
\* unique section, of the repeated section and of the security data.
BadSizeTexts == { Str(<< "0","a" >>), Spaces(2), Str(<< "Y","Y" >>) }
BadSizePassTexts ==
    LET h == << Ord("M"), 49 >> \o NameText \o << Ord("E") >>
    IN  { h \o MandatoryText(1) \o b \o IndividualUseText : b \in BadSizeTexts }
          \cup { h \o LegText(MandatoryText(1), Str(<< ">","6" >>) \o b \o Hex2(0)) :
                    b \in BadSizeTexts }
          \cup { h \o LegText(MandatoryText(1), Str(<< ">","6" >>) \o Hex2(0) \o b) :
                    b \in BadSizeTexts }
          \cup { h \o LegText(MandatoryText(1), << >>) \o Str(<< "^","1" >>) \o b :
                    b \in BadSizeTexts }

\* A pass of ten legs whose leg count is the hexadecimal digit A.
HexCountText ==
    << Ord("M"), Ord("A") >> \o NameText \o << Ord("E") >> \o FullLegs(10)

AsciiTexts ==
    PassTexts
      \cup SectionPassTexts
      \cup { HexCountText }
      \cup BadSizePassTexts
      \cup UNION { Prefixes(FullText(n)) : n \in 1..MaxLegs }
      \cup Prefixes(BlankText)
      \cup UNION { Prefixes(t) : t \in OtherFormatTexts }

\* The character at position p replaced by U+00E7 (bytes C3 A7).
WithNonAscii(t, p) == Take(t, p - 1) \o << 195, 167 >> \o Drop(t, p)

NonAsciiTexts ==
    { << 195, 167 >> }
      \cup UNION { { WithNonAscii(t, p) : p \in 1..Len(t) } :
                     t \in { FullText(1), Take(FullText(1), 11), Take(FullText(1), 70) }
                             \cup OtherFormatTexts }

Inputs == AsciiTexts \cup NonAsciiTexts

----------------------------------------------------------------------------
(* from_str and bcbp as a state machine.                                   *)

NoValue == << >>

\* error.rs / de/parser.rs: Result<Bcbp>.  A ParseFailed error carries the
\* text convert_error() renders from the nom error: its kind, its context
\* label and the position it points at.
Ok(v) == [ok |-> TRUE, error |-> "", kind |-> "", ctx |-> "", at |-> 0, value |-> v]
Err(e) == [ok |-> FALSE, error |-> e, kind |-> "", ctx |-> "", at |-> 0, value |-> NoValue]
ParseFailed(e) ==
    [ok |-> FALSE, error |-> "ParseFailed", kind |-> e.kind, ctx |-> e.ctx,
     at |-> Len(input) - e.at, value |-> NoValue]

\* from_str: the closure given to map_err.  A panic in bcbp does not come
\* to the closure: from_str does not return.
map_err(e) ==
    IF e.kind = "Panic" THEN Err("panic")
    ELSE IF e.kind = "Incomplete" THEN Err("UnexpectedEndOfInput")
    ELSE ParseFailed(e)

Init ==
    /\ input \in Inputs
    /\ pc = "from_str"
    /\ rest = << >>
    /\ number_of_legs_encoded = 0
    /\ passenger_name = << >>
    /\ electronic_ticket_indicator = 0
    /\ legs = << >>
    /\ metadata = DefaultConditionalMetadata
    /\ security_data_v = DefaultSecurityData
    /\ nom_err = NoValue
    /\ result = NoValue
    /\ strict = FALSE
    /\ field_value = << >>
    /\ offset = 0
    /\ scanned = << >>
    /\ leg_read = << >>

\* The two checks of from_str in the other order.
from_str_checks_format_first(i) ==
    IF ~format_code_m(i).ok THEN Err("UnsupportedFormat")
    ELSE IF ~is_ascii(i) THEN Err("InvalidCharacters")
    ELSE NoValue

\* from_str, up to the call of bcbp: the ASCII check and the format check.
from_str_checks(i) ==
    IF ~is_ascii(i) THEN Err("InvalidCharacters")
    ELSE IF ~format_code_m(i).ok THEN Err("UnsupportedFormat")
    ELSE NoValue

FromStrBegin ==
    /\ pc = "from_str"
    /\ LET r == from_str_checks(input)
       IN  IF r # NoValue
           THEN /\ result' = r
                /\ pc' = "done"
                /\ rest' = rest
           ELSE /\ result' = result
                /\ pc' = "bcbp"
                /\ rest' = input
    /\ UNCHANGED <<input, number_of_legs_encoded, passenger_name,
                   electronic_ticket_indicator, legs, metadata,
                   security_data_v, nom_err, strict, field_value,
                   offset, scanned, leg_read>>

\* bcbp: format code, number of legs, passenger name, e-ticket indicator.
bcbp_header(i) ==
    LET f == format_code_m(i)
    IN  IF ~f.ok THEN f ELSE
    LET n == number_of_legs(f.rest)
    IN  IF ~n.ok THEN n ELSE
    LET h == fields(n.rest, << << "string_field", "PassengerName" >>,
                               << "character_field", "ElectronicTicketIndicator" >> >>, << >>)
    IN  IF ~h.ok THEN h ELSE
        NomOk(h.rest, [number_of_legs_encoded |-> n.val,
                       passenger_name |-> h.val[1],
                       electronic_ticket_indicator |-> h.val[2]])

BcbpHeader ==
    /\ pc = "bcbp"
    /\ LET r == bcbp_header(rest)
       IN  IF r.ok
           THEN /\ number_of_legs_encoded' = r.val.number_of_legs_encoded
                /\ passenger_name' = r.val.passenger_name
                /\ electronic_ticket_indicator' = r.val.electronic_ticket_indicator
                /\ rest' = r.rest
                /\ pc' = "legs"
                /\ UNCHANGED <<nom_err, result>>
           ELSE /\ nom_err' = r
                /\ result' = map_err(r)
                /\ pc' = "done"
                /\ UNCHANGED <<number_of_legs_encoded, passenger_name,
                               electronic_ticket_indicator, rest>>
    /\ UNCHANGED <<input, legs, metadata, security_data_v, strict, field_value,
                   offset, scanned, leg_read>>

\* bcbp: one iteration of `for leg_index in 0 .. number_of_legs_encoded`.
BcbpLeg ==
    /\ pc = "legs"
    /\ Len(legs) < number_of_legs_encoded
    /\ LET leg_index == Len(legs)
           r == leg(rest, leg_index = 0)
       IN  IF r.ok
           THEN /\ metadata' = IF r.val[2] # None THEN r.val[2][1] ELSE metadata
                /\ legs' = Append(legs, r.val[1])
                /\ rest' = r.rest
                /\ UNCHANGED <<pc, nom_err, result>>
           ELSE /\ nom_err' = r
                /\ result' = map_err(r)
                /\ pc' = "done"
                /\ UNCHANGED <<legs, metadata, rest>>
    /\ UNCHANGED <<input, number_of_legs_encoded, passenger_name,
                   electronic_ticket_indicator, security_data_v, strict, field_value,
                   offset, scanned, leg_read>>

\* A return that does not look at the remainder.
from_str_return_unchecked(remainder, boarding_pass) == Ok(boarding_pass)

\* from_str, after bcbp returned Ok((remainder, boarding_pass)).
from_str_return(remainder, boarding_pass) ==
    IF Len(remainder) > 0 THEN Err("TrailingCharacters")
    ELSE Ok(boarding_pass)

\* bcbp: the security data after the last leg and the return of the pass;
\* from_str: the check of the remainder bcbp returned.
BcbpSecurityData ==
    /\ pc = "legs"
    /\ Len(legs) >= number_of_legs_encoded
    /\ LET r == security_data(rest)
       IN  IF r.ok
           THEN /\ security_data_v' = r.val
                /\ rest' = r.rest
                /\ result' = from_str_return(r.rest,
                                [ passenger_name |-> passenger_name,
                                  electronic_ticket_indicator |-> electronic_ticket_indicator,
                                  metadata |-> metadata,
                                  legs |-> legs,
                                  security_data |-> r.val ])
                /\ UNCHANGED nom_err
           ELSE /\ nom_err' = r
                /\ result' = map_err(r)
                /\ UNCHANGED <<security_data_v, rest>>
    /\ pc' = "done"
    /\ UNCHANGED <<input, number_of_legs_encoded, passenger_name,
                   electronic_ticket_indicator, legs, metadata, strict, field_value,
                   offset, scanned, leg_read>>

Next ==
    \/ FromStrBegin
    \/ BcbpHeader
    \/ BcbpLeg
    \/ BcbpSecurityData

Spec == Init /\ [][Next]_vars

----------------------------------------------------------------------------
(* Properties of from_str.                                                 *)

\* from_str has returned.
Done == pc = "done"
\* from_str has returned Ok.
Succeeded == pc = "done" /\ result.ok
\* from_str has returned Err(e).
FailedWith(e) == pc = "done" /\ ~result.ok /\ result.error = e

\* The w bytes of the input that follow its first o bytes.
At(o, w) == SubSeq(input, o + 1, o + w)

\* The number of input bytes in front of the k-th leg, counted on the input
\* itself: the header is 23 bytes, and a leg is its 35 bytes of mandatory
\* fields, the 2 hexadecimal digits of the size of its conditional section,
\* and that section.
RECURSIVE LegOffset(_)
LegOffset(k) ==
    IF k = 1 THEN 23
    ELSE LegOffset(k - 1) + 37 + from_str_radix_16(At(LegOffset(k - 1) + 35, 2))

\* The mandatory fields of leg l are the input's bytes after the first o.
LegAt(l, o) ==
    /\ l.operating_carrier_pnr_code = At(o, 7)
    /\ l.from_city_airport_code = At(o + 7, 3)
    /\ l.to_city_airport_code = At(o + 10, 3)
    /\ l.operating_carrier_designator = At(o + 13, 3)
    /\ l.flight_number = At(o + 16, 5)
    /\ l.date_of_flight = At(o + 21, 3)
    /\ l.compartment_code = input[o + 25]
    /\ l.seat_number = At(o + 25, 4)
    /\ l.check_in_sequence_number = At(o + 29, 5)
    /\ l.passenger_status = input[o + 35]

\* C1: when the input decodes successfully, every mandatory field of the
\* result is the untrimmed substring of the input at its fixed position and
\* width: the passenger name is bytes 2..21, the electronic-ticket indicator
\* is byte 22, and the ten mandatory fields of every leg follow one another
\* from the start of the leg; a blank field is returned as its spaces.
C1_MandatoryFieldsAreInputSubstrings ==
    Succeeded =>
        /\ result.value.passenger_name = At(2, 20)
        /\ result.value.electronic_ticket_indicator = input[23]
        /\ \A k \in 1..Len(result.value.legs) :
               LegAt(result.value.legs[k], LegOffset(k))

\* A pass of two legs decoded, the first with all mandatory fields blank and
\* the second after a conditional section.
C1_Witness ==
    /\ Succeeded
    /\ Len(result.value.legs) = 2
    /\ result.value.legs[1].operating_carrier_pnr_code = Spaces(7)
    /\ result.value.legs[1].airline_numeric_code # None
    /\ result.value.legs[2].flight_number = At(LegOffset(2) + 16, 5)
    /\ LegOffset(2) > 23 + 37

\* C4: an input with a non-ASCII byte fails with InvalidCharacters, whatever
\* else is wrong with it (format code, length, fields).
C4_NonAsciiIsInvalidCharacters ==
    (Done /\ ~is_ascii(input)) => FailedWith("InvalidCharacters")

\* A non-ASCII input that is also too short and of another format.
C4_Witness ==
    /\ FailedWith("InvalidCharacters")
    /\ Len(input) < 23
    /\ input[1] # Ord("M")

\* C5: an all-ASCII input whose first byte is not 'M' fails with
\* UnsupportedFormat, whatever follows.
C5_NotMIsUnsupportedFormat ==
    (Done /\ is_ascii(input) /\ Len(input) > 0 /\ input[1] # Ord("M"))
        => FailedWith("UnsupportedFormat")

\* A whole pass with 'm' in front.
C5_Witness ==
    /\ FailedWith("UnsupportedFormat")
    /\ Len(input) > 23
    /\ input[1] = Ord("m")

\* C8: decode never succeeds with input bytes left unread: when bytes remain
\* after the legs and the security data, it fails with TrailingCharacters.
C8_TrailingCharacters ==
    /\ (Done /\ nom_err = NoValue /\ is_ascii(input) /\ Len(input) > 0
          /\ input[1] = Ord("M") /\ Len(rest) > 0)
           => FailedWith("TrailingCharacters")
    /\ Succeeded => rest = << >>

\* A pass with security data and one byte after it.
C8_Witness ==
    /\ FailedWith("TrailingCharacters")
    /\ security_data_v.type_of_security_data # None
    /\ Len(rest) = 1

\* The labels of the mandatory fields of a leg.
MandatoryFieldNames == { MandatoryFields[k][2] : k \in 1..Len(MandatoryFields) }

\* bcbp stopped in a leg because the input ended inside a mandatory field.
EndedInMandatoryField ==
    /\ Done
    /\ nom_err # NoValue
    /\ nom_err.kind = "Eof"
    /\ Len(legs) < number_of_legs_encoded
    /\ nom_err.ctx \in MandatoryFieldNames

\* C2: a pass declaring N legs decodes only to exactly N legs, and an input
\* that ends before the mandatory fields of all N legs have been read fails
\* with UnexpectedEndOfInput.
C2_DeclaredLegs ==
    /\ Succeeded => Len(result.value.legs) = HexDigitValue(input[2])
    /\ EndedInMandatoryField => FailedWith("UnexpectedEndOfInput")

\* C3: an input whose leg count is '0' fails with NoLegs, so that every
\* decoded pass has at least one leg.
C3_ZeroLegsIsNoLegs ==
    /\ (Done /\ is_ascii(input) /\ Len(input) >= 23
          /\ input[1] = Ord("M") /\ input[2] = Ord("0"))
           => FailedWith("NoLegs")
    /\ Succeeded => Len(result.value.legs) >= 1

\* C6: an input shorter than the 23 bytes of the header (the empty input
\* among them) fails with UnexpectedEndOfInput.  (Inputs that the checks of
\* C4 and C5 reject first are left out.)
C6_ShortIsUnexpectedEndOfInput ==
    (Done /\ is_ascii(input) /\ Len(input) < 23
       /\ (Len(input) = 0 \/ input[1] = Ord("M")))
        => FailedWith("UnexpectedEndOfInput")

\* The header field that holds the byte after the first n bytes.
HeaderFieldAt(n) ==
    IF n < 1 THEN "FormatCode"
    ELSE IF n < 2 THEN "NumberOfLegsEncoded"
    ELSE IF n < 22 THEN "PassengerName"
    ELSE "ElectronicTicketIndicator"

\* C7: when the input ends inside a mandatory fixed-length field, decode
\* fails with UnexpectedEndOfInput and the error names the first field that
\* could not be read in full (here: for the fields of the header).
C7_UnexpectedEndOfInputNamesField ==
    (Done /\ is_ascii(input) /\ Len(input) \in 2..22
       /\ input[1] = Ord("M") /\ is_ascii_uppercase_hexdigit(input[2]))
        => /\ FailedWith("UnexpectedEndOfInput")
           /\ result.ctx = HeaderFieldAt(Len(input))

\* bcbp has read every declared leg and is about to read the security data.
AfterLastLeg == pc = "legs" /\ Len(legs) >= number_of_legs_encoded

C10_SecurityData ==
    [][ (AfterLastLeg /\ Len(rest) >= 4 /\ rest[1] = Ord("^")
           /\ is_ascii_uppercase_hexdigit(rest[3])
           /\ is_ascii_uppercase_hexdigit(rest[4]))
          => IF Len(rest) - 4 >= from_str_radix_16(SubSeq(rest, 3, 4))
             THEN security_data_v' =
                    [ type_of_security_data |-> Some(rest[2]),
                      security_data |->
                          IF from_str_radix_16(SubSeq(rest, 3, 4)) > 0
                          THEN Some(SubSeq(rest, 5, 4 + from_str_radix_16(SubSeq(rest, 3, 4))))
                          ELSE None ]
             ELSE ~result'.ok /\ result'.error = "UnexpectedEndOfInput"
      ]_vars

\* BcbpLeg has decoded one more leg.
LegDecoded == pc = "legs" /\ Len(legs') = Len(legs) + 1

\* The declared size of the conditional section of the leg that starts at
\* the cursor: the 2 hexadecimal digits after the 35 bytes of mandatory fields.
DeclaredSize == from_str_radix_16(SubSeq(rest, 36, 37))

\* C11: the declared size S of a leg's conditional section is authoritative:
\* after a leg is decoded the cursor stands exactly 37 + S bytes after the
\* start of the leg, whatever was recognized inside the section.
C11_CursorAfterLeg ==
    [][ LegDecoded => rest' = Drop(rest, 37 + DeclaredSize) ]_vars

\* A first leg decoded whose repeated section ends before its last field and
\* whose section goes on with airline individual use, with input after it.
C11_Witness ==
    /\ pc = "legs"
    /\ Len(legs) = 1
    /\ legs[1].airline_numeric_code # None
    /\ legs[1].fast_track = None
    /\ legs[1].airline_individual_use = Some(IndividualUseText)
    /\ Len(rest) > 0
    /\ Len(rest) = Len(input) - 23 - 37 - from_str_radix_16(At(23 + 35, 2))

----------------------------------------------------------------------------
(* The layout of a leg, read off the input at the cursor.                  *)

\* bcbp is about to decode a leg.
BeforeLeg == pc = "legs" /\ Len(legs) < number_of_legs_encoded
\* The leg is the first.
FirstLeg == Len(legs) = 0
\* The number of input bytes in front of the leg.
LegStart == Len(input) - Len(rest)

\* t begins with two uppercase hexadecimal digits; their value.
IsHex2(t) ==
    Len(t) >= 2 /\ is_ascii_uppercase_hexdigit(t[1]) /\ is_ascii_uppercase_hexdigit(t[2])
Size(t) == from_str_radix_16(Take(t, 2))

\* The leg's mandatory fields and its size field are there.
LegSized == BeforeLeg /\ Len(rest) >= 37 /\ IsHex2(Drop(rest, 35))
\* The conditional section is there in full; the section.
LegCarved == LegSized /\ DeclaredSize <= Len(rest) - 37
CurrentSection == SubSeq(rest, 38, 37 + DeclaredSize)

\* A first leg's section s: it has the marker, a version character and the
\* size field of the unique section; the declared size; the unique section
\* is there in full; the section; what follows it.
UniqueSized(s) == Len(s) >= 4 /\ s[1] = Ord(">") /\ IsHex2(Drop(s, 2))
UniqueSize(s) == Size(Drop(s, 2))
UniqueCarved(s) == UniqueSized(s) /\ UniqueSize(s) <= Len(s) - 4
UniqueData(s) == SubSeq(s, 5, 4 + UniqueSize(s))
AfterUnique(s) == Drop(s, 4 + UniqueSize(s))

\* A section t whose list of fields ends at the lengths bs is made of whole
\* fields: it ends where a field ends, or after the last field.
WholeFields(t, bs) == Len(t) \in Range(bs) \/ Len(t) > bs[Len(bs)]

\* The part of the section s of the leg that starts with the size field of
\* the repeated section, and whether the decoder gets there.
RepeatedPart(s) == IF FirstLeg THEN AfterUnique(s) ELSE s
RepeatedReached(s) ==
    \/ ~FirstLeg
    \/ UniqueCarved(s) /\ WholeFields(UniqueData(s), UniqueBoundaries)
RepeatedSized(s) == RepeatedReached(s) /\ IsHex2(RepeatedPart(s))
RepeatedSize(s) == Size(RepeatedPart(s))
RepeatedCarved(s) == RepeatedSized(s) /\ RepeatedSize(s) <= Len(RepeatedPart(s)) - 2
RepeatedData(s) == SubSeq(RepeatedPart(s), 3, 2 + RepeatedSize(s))
AfterRepeated(s) == Drop(RepeatedPart(s), 2 + RepeatedSize(s))

\* The three ways a declared size is larger than what its region holds.
LegSectionTooLong == LegSized /\ DeclaredSize > Len(rest) - 37
UniqueSectionTooLong ==
    /\ LegCarved /\ FirstLeg
    /\ UniqueSized(CurrentSection) /\ ~UniqueCarved(CurrentSection)
RepeatedSectionTooLong ==
    /\ LegCarved
    /\ RepeatedSized(CurrentSection) /\ ~RepeatedCarved(CurrentSection)

\* from_str returns Err(e) in this step.
FailsWith(e) == pc' = "done" /\ ~result'.ok /\ result'.error = e
\* from_str returns the ParseFailed of a nom error of kind k labelled c that
\* points at the byte after the first a bytes of the input.
FailsAt(k, c, a) ==
    /\ FailsWith("ParseFailed")
    /\ result'.kind = k /\ result'.ctx = c /\ result'.at = a

OptText(t) == IF Len(t) > 0 THEN Some(t) ELSE None

\* The leg at the cursor has a section whose repeated section is there in
\* full and made of whole fields (and, in a first leg, a unique section of
\* the same kind before it).
SectionOfWholeFields ==
    /\ LegCarved
    /\ RepeatedCarved(CurrentSection)
    /\ WholeFields(RepeatedData(CurrentSection), RepeatedBoundaries)

\* The unique / repeated section goes on after the last field of its list.
UniqueOversize == FirstLeg /\ Len(UniqueData(CurrentSection)) > 50
RepeatedOversize == Len(RepeatedData(CurrentSection)) > 42

\* The leg BcbpLeg has decoded.
NewLeg == legs'[Len(legs')]

\* C13: when a unique or repeated section is declared larger than all the
\* fields of its list, the bytes after the last field are skipped: the leg
\* decodes, the last field of the list holds its own bytes only, and
\* airline individual use is what follows the repeated section, without
\* the skipped bytes.
C13_ReservedBytesSkipped ==
    [][ (SectionOfWholeFields /\ (UniqueOversize \/ RepeatedOversize))
          => /\ LegDecoded
             /\ NewLeg.airline_individual_use = OptText(AfterRepeated(CurrentSection))
             /\ RepeatedOversize =>
                  NewLeg.fast_track = Some(RepeatedData(CurrentSection)[42])
             /\ UniqueOversize =>
                  metadata'.second_non_consecutive_baggage_tag_license_plate_numbers
                      = Some(SubSeq(UniqueData(CurrentSection), 38, 50))
      ]_vars

\* A first leg decoded whose repeated section has two bytes after the last
\* field, followed by airline individual use.
C13_Witness ==
    /\ pc = "legs"
    /\ Len(legs) = 1
    /\ Len(input) >= 77 + 42 + Len(ReservedText)
    /\ IsHex2(At(62, 2)) /\ IsHex2(At(75, 2))
    /\ Size(At(62, 2)) = 11
    /\ Size(At(75, 2)) = 42 + Len(ReservedText)
    /\ At(77 + 42, 2) = ReservedText
    /\ legs[1].fast_track = Some(input[77 + 42])
    /\ legs[1].airline_individual_use = Some(IndividualUseText)

\* The optional fields of a leg and of the pass metadata, in the order of
\* their lists.
RepeatedValues(l) ==
    << l.airline_numeric_code, l.document_form_serial_number, l.selectee_indicator,
       l.international_document_verification, l.marketing_carrier_designator,
       l.frequent_flyer_airline_designator, l.frequent_flyer_number,
       l.id_ad_indicator, l.free_baggage_allowance, l.fast_track >>
UniqueValues(md) ==
    << md.passenger_description, md.source_of_check_in,
       md.source_of_boarding_pass_issuance, md.date_of_issue_of_boarding_pass,
       md.document_type, md.airline_designator_of_boarding_pass_issuer,
       md.baggage_tag_license_plate_numbers,
       md.first_non_consecutive_baggage_tag_license_plate_numbers,
       md.second_non_consecutive_baggage_tag_license_plate_numbers >>

\* The k-th field of a section t whose fields end at the lengths bs: absent
\* when the section ends before it, a character when its width is 1.
FieldOf(t, bs, k) ==
    IF Len(t) < bs[k + 1] THEN None
    ELSE IF bs[k + 1] = bs[k] + 1 THEN Some(t[bs[k + 1]])
    ELSE Some(SubSeq(t, bs[k] + 1, bs[k + 1]))

\* The values vs are those of the fields of section t.
FieldsOf(vs, t, bs) == \A k \in 1..Len(vs) : vs[k] = FieldOf(t, bs, k)
\* The values present are the first ones.
IsPrefix(vs) == \A j, k \in 1..Len(vs) : (j < k /\ vs[j] = None) => vs[k] = None

\* C14: the optional fields of a unique or repeated section are decoded in
\* the order of the list, and decoding ends well when the section ends where
\* a field ends: the fields up to there are present, with the section's bytes
\* in order, and every later field is absent.
C14_OptionalFieldsArePrefix ==
    [][ SectionOfWholeFields
          => /\ LegDecoded
             /\ FieldsOf(RepeatedValues(NewLeg), RepeatedData(CurrentSection),
                         RepeatedBoundaries)
             /\ IsPrefix(RepeatedValues(NewLeg))
             /\ FirstLeg =>
                  /\ FieldsOf(UniqueValues(metadata'), UniqueData(CurrentSection),
                              UniqueBoundaries)
                  /\ IsPrefix(UniqueValues(metadata'))
      ]_vars

\* A first leg decoded whose repeated section ends after its third field.
C14_Witness ==
    /\ pc = "legs"
    /\ Len(legs) = 1
    /\ legs[1].selectee_indicator # None
    /\ legs[1].international_document_verification = None
    /\ legs[1].fast_track = None
    /\ metadata.airline_designator_of_boarding_pass_issuer # None
    /\ metadata.baggage_tag_license_plate_numbers = None

\* A section t whose fields end at the lengths bs ends inside a field: the
\* number of whole fields in front of that field, and where it starts.
RECURSIVE WholeCount(_, _)
WholeCount(t, bs) ==
    IF Len(bs) = 1 \/ bs[2] > Len(t) THEN 0
    ELSE 1 + WholeCount(t, Tail(bs))
PartialStart(t, bs) == bs[WholeCount(t, bs) + 1]

\* The unique / repeated section of the leg at the cursor is there in full
\* and ends inside a field.
UniquePartial ==
    /\ LegCarved /\ FirstLeg
    /\ UniqueCarved(CurrentSection)
    /\ ~WholeFields(UniqueData(CurrentSection), UniqueBoundaries)
RepeatedPartial ==
    /\ LegCarved
    /\ RepeatedCarved(CurrentSection)
    /\ ~WholeFields(RepeatedData(CurrentSection), RepeatedBoundaries)

\* The number of input bytes in front of the unique / repeated section.
UniqueStart == LegStart + 37 + 4
RepeatedStart == LegStart + 37 + DeclaredSize - Len(RepeatedPart(CurrentSection)) + 2

C16_MetadataOnlyInFirstLeg ==
    [][ /\ (BeforeLeg /\ ~FirstLeg) => metadata' = metadata
        /\ LegDecoded =>
              DOMAIN NewLeg \cap DOMAIN DefaultConditionalMetadata = { }
        /\ (LegCarved /\ ~FirstLeg /\ DeclaredSize > 0 /\ CurrentSection[1] = Ord(">"))
              => FailsAt("TakeWhileMN", "FieldSizeOfStructuredMessageRepeated",
                         LegStart + 37)
        /\ (LegCarved /\ ~FirstLeg /\ SectionOfWholeFields)
              => /\ LegDecoded
                 /\ NewLeg.airline_numeric_code =
                      FieldOf(SubSeq(CurrentSection, 3, 2 + Size(CurrentSection)),
                              RepeatedBoundaries, 1)
        /\ (AfterLastLeg /\ result'.ok) => result'.value.metadata = metadata
      ]_vars

\* A pass of two legs decoded, its metadata read in the first leg and the
\* second leg with a repeated section.
C16_Witness ==
    /\ Succeeded
    /\ Len(result.value.legs) = 2
    /\ result.value.legs[2].airline_numeric_code # None
    /\ result.value.metadata.version_number = Some(Ord("6"))
    /\ result.value.metadata.passenger_description # None

\* The first leg is at the cursor and its section, not empty, does not begin
\* with '>'.
NoVersionMarker ==
    /\ LegCarved /\ FirstLeg
    /\ DeclaredSize > 0
    /\ CurrentSection[1] # Ord(">")

SectionEndsBeforeRepeated ==
    /\ LegCarved
    /\ \/ DeclaredSize = 0
       \/ FirstLeg /\ DeclaredSize \in 1..2 /\ CurrentSection[1] = Ord(">")
       \/ RepeatedReached(CurrentSection) /\ Len(RepeatedPart(CurrentSection)) = 0

\* C18: the airline individual use of a leg is, byte for byte, the part of
\* the leg's conditional section after the repeated section (in a first leg:
\* after marker, version, unique section and repeated section), whatever its
\* length, and is absent when that part is empty.
C18_AirlineIndividualUse ==
    [][ /\ SectionOfWholeFields
              => /\ LegDecoded
                 /\ NewLeg.airline_individual_use = OptText(AfterRepeated(CurrentSection))
                 /\ Len(AfterRepeated(CurrentSection))
                      = DeclaredSize - (RepeatedStart - (LegStart + 37))
                          - RepeatedSize(CurrentSection)
        /\ SectionEndsBeforeRepeated
              => /\ LegDecoded
                 /\ NewLeg.airline_individual_use = None
      ]_vars

\* A pass of two legs decoded, the first with airline individual use after
\* its repeated section, the second with a repeated section and nothing
\* after it.
C18_Witness ==
    /\ Succeeded
    /\ Len(result.value.legs) = 2
    /\ result.value.legs[1].airline_individual_use = Some(IndividualUseText)
    /\ result.value.legs[2].airline_numeric_code # None
    /\ result.value.legs[2].airline_individual_use = None

\* C19: a leg whose conditional size field is "00" is complete after that
\* field: the cursor stands right after it, every optional field of the leg
\* and its airline individual use are absent; for the first leg no '>' is
\* asked for and every field of the pass metadata is absent.
C19_EmptyConditionalSection ==
    [][ (LegSized /\ DeclaredSize = 0)
          => /\ LegDecoded
             /\ rest' = Drop(rest, 37)
             /\ \A k \in 1..10 : RepeatedValues(NewLeg)[k] = None
             /\ NewLeg.airline_individual_use = None
             /\ FirstLeg =>
                  /\ metadata'.version_number = None
                  /\ \A k \in 1..9 : UniqueValues(metadata')[k] = None
      ]_vars

\* A one-leg pass decoded whose leg has the size "00", with security data
\* right after it.
C19_Witness ==
    /\ Succeeded
    /\ Len(result.value.legs) = 1
    /\ Len(input) > 62
    /\ At(58, 2) = Str(<< "0","0" >>)
    /\ result.value.legs[1].operating_carrier_pnr_code # Spaces(7)
    /\ result.value.metadata = DefaultConditionalMetadata
    /\ result.value.security_data.type_of_security_data = Some(input[62])

-----------------------------------------------------------------------------
(* parse(input, strict) of parser.rs: the decoder with a validation mode.   *)
(* It reads the input through a Scanner, one field of the catalog at a     *)
(* time.  The scanner is the text it has still to read; a scan returns a   *)
(* record [ok, rest, val, reason].                                         *)

\* de/field.rs, Field::data_format.
data_format_alphanumerical(field_id) == "IataAlphaNumerical"

data_format(field_id) ==
    CASE field_id = "FormatCode" -> "IataAlphaNumerical"
      [] field_id = "AirlineIndividualUse" -> "Arbitrary"
      [] field_id = "NumberOfLegsEncoded" -> "IataNumerical"
      [] field_id = "FieldSizeOfVariableSizeField" -> "IataAlphaNumerical"
      [] field_id = "OperatingCarrierPnrCode" -> "IataAlphaNumerical"
      [] field_id = "BeginningOfVersionNumber" -> "IataAlphaNumerical"
      [] field_id = "VersionNumber" -> "IataAlphaNumerical"
      [] field_id = "FieldSizeOfStructuredMessageUnique" -> "IataAlphaNumerical"
      [] field_id = "PassengerName" -> "IataAlphaNumerical"
      [] field_id = "SourceOfCheckIn" -> "IataAlphaNumerical"
      [] field_id = "SourceOfBoardingPassIssuance" -> "IataAlphaNumerical"
      [] field_id = "PassengerDescription" -> "IataAlphaNumerical"
      [] field_id = "DocumentType" -> "IataAlphaNumerical"
      [] field_id = "FieldSizeOfStructuredMessageRepeated" -> "IataAlphaNumerical"
      [] field_id = "SelecteeIndicator" -> "IataAlphaNumerical"
      [] field_id = "MarketingCarrierDesignator" -> "IataAlphaNumerical"
      [] field_id = "FrequentFlyerAirlineDesignator" -> "IataAlphaNumerical"
      [] field_id = "AirlineDesignatorOfBoardingPassIssuer" -> "IataAlphaNumerical"
      [] field_id = "DateOfIssueOfBoardingPass" -> "IataNumerical"
      [] field_id = "BaggageTagLicensePlateNumbers" -> "IataAlphaNumerical"
      [] field_id = "BeginningOfSecurityData" -> "IataAlphaNumerical"
      [] field_id = "FromCityAirportCode" -> "IataAlphabetical"
      [] field_id = "TypeOfSecurityData" -> "IataAlphaNumerical"
      [] field_id = "LengthOfSecurityData" -> "IataAlphaNumerical"
      [] field_id = "SecurityData" -> "Arbitrary"
      [] field_id = "FirstNonConsecutiveBaggageTagLicensePlateNumber" -> "IataAlphaNumerical"
      [] field_id = "SecondNonConsecutiveBaggageTagLicensePlateNumber" -> "IataAlphaNumerical"
      [] field_id = "ToCityAirportCode" -> "IataAlphabetical"
      [] field_id = "OperatingCarrierDesignator" -> "IataAlphaNumerical"
      [] field_id = "FlightNumber" -> "FlightNumber"
      [] field_id = "DateOfFlight" -> "IataNumerical"
      [] field_id = "CompartmentCode" -> "IataAlphabetical"
      [] field_id = "IdAdIndicator" -> "IataAlphaNumerical"
      [] field_id = "SeatNumber" -> "IataAlphaNumerical"
      [] field_id = "CheckInSequenceNumber" -> "IataAlphaNumerical"
      [] field_id = "InternationalDocumentVerification" -> "IataAlphaNumerical"
      [] field_id = "PassengerStatus" -> "IataAlphaNumerical"
      [] field_id = "FreeBaggageAllowance" -> "IataAlphaNumerical"
      [] field_id = "AirlineNumericCode" -> "IataNumerical"
      [] field_id = "DocumentFormSerialNumber" -> "IataAlphaNumerical"
      [] field_id = "FrequentFlyerNumber" -> "IataAlphaNumerical"
      [] field_id = "ElectronicTicketIndicator" -> "IataAlphaNumerical"
      [] field_id = "FastTrack" -> "IataAlphaNumerical"

is_ascii_uppercase(b) == b >= 65 /\ b <= 90
is_ascii_graphic_or_blank(b) == (b >= 32 /\ b <= 126) \/ b \in {9, 10, 13}

\* de/field.rs, DataFormat: the texts of a format.
matches(format, text) ==
    CASE format = "Arbitrary" ->
           \A k \in 1..Len(text) : is_ascii_graphic_or_blank(text[k])
      [] format = "IataAlphaNumerical" ->
           \A k \in 1..Len(text) : is_ascii_byte(text[k])
      [] format = "IataNumerical" ->
           \A k \in 1..Len(text) : is_ascii_digit(text[k])
      [] format = "IataAlphabetical" ->
           \A k \in 1..Len(text) : is_ascii_uppercase(text[k])
      [] format = "FlightNumber" ->
           /\ Len(text) = 5
           /\ \A k \in 1..4 : is_ascii_digit(text[k])
           /\ is_ascii_uppercase(text[5]) \/ text[5] = 32

ScanOk(i, v) == [ok |-> TRUE, rest |-> i, val |-> v, reason |-> ""]
ScanError(i, reason) == [ok |-> FALSE, rest |-> i, val |-> << >>, reason |-> reason]

\* Scanner::scan_field_len: the next n bytes as the value of the field; with
\* strict set they are checked against the field's format unless they are
\* all spaces.
scan_field_len(i, field_id, n, strict_) ==
    IF Len(i) < n THEN ScanError(i, "FieldLongerThanRemainingInput")
    ELSE IF /\ strict_
            /\ Take(i, n) # Spaces(n)
            /\ ~matches(data_format(field_id), Take(i, n))
         THEN ScanError(i, "InvalidCharacter")
    ELSE ScanOk(Drop(i, n), Take(i, n))

\* Scanner::scan_field: a field of the length the catalog gives.
scan_field(i, field_id, strict_) == scan_field_len(i, field_id, len(field_id), strict_)

\* Scanner::scan_field_list: a scanner over the next n bytes.
scan_field_list(i, n) ==
    IF Len(i) < n THEN ScanError(i, "FieldLongerThanRemainingInput")
    ELSE ScanOk(Drop(i, n), Take(i, n))

\* Scanner::remaining_len.
remaining_len(i) == Len(i)

\* u64::from_str_radix(n, radix).unwrap_or(0) of a text of one or two bytes:
\* digits of the radix in either case, after an optional plus sign.
IsDigitOfRadix(b, radix) == is_ascii_hexdigit(b) /\ HexDigitValue(b) < radix
DigitsValue(t, radix) ==
    IF Len(t) = 1 THEN HexDigitValue(t[1])
    ELSE radix * HexDigitValue(t[1]) + HexDigitValue(t[2])
unwrap_or_0(n, radix) ==
    IF Len(n) > 0 /\ \A k \in 1..Len(n) : IsDigitOfRadix(n[k], radix)
    THEN DigitsValue(n, radix)
    ELSE IF Len(n) = 2 /\ n[1] = 43 /\ IsDigitOfRadix(n[2], radix)
    THEN HexDigitValue(n[2])
    ELSE 0

\* BcbpParserError and the Result of a step of the parser: rest is the
\* scanner after the step, val what it read.
ParserOk(i, v) ==
    [ok |-> TRUE, rest |-> i, val |-> v, error |-> "", field |-> "", reason |-> ""]
ParserErr(e) ==
    [ok |-> FALSE, rest |-> << >>, val |-> << >>, error |-> e, field |-> "",
     reason |-> ""]
UnableToReadField(field_id, e) ==
    [ok |-> FALSE, rest |-> << >>, val |-> << >>, error |-> "UnableToReadField",
     field |-> field_id, reason |-> e.reason]

\* fn collect_required_fields.
RECURSIVE collect_required_fields(_, _, _, _)
collect_required_fields(i, strict_, field_ids, scanned_fields) ==
    IF field_ids = << >> THEN ParserOk(i, scanned_fields)
    ELSE LET value == scan_field(i, Head(field_ids), strict_)
         IN  IF ~value.ok THEN UnableToReadField(Head(field_ids), value)
             ELSE collect_required_fields(
                      value.rest, strict_, Tail(field_ids),
                      Append(scanned_fields, << Head(field_ids), value.val >>))

\* fn collect_optional_fields.
RECURSIVE collect_optional_fields(_, _, _, _)
collect_optional_fields(i, strict_, field_ids, scanned_fields) ==
    IF field_ids = << >> THEN ParserOk(i, scanned_fields)
    ELSE IF remaining_len(i) = 0 THEN ParserOk(i, scanned_fields)
    ELSE IF remaining_len(i) < len(Head(field_ids))
         THEN ParserErr("InvalidConditionalItemList")
    ELSE LET value == scan_field(i, Head(field_ids), strict_)
         IN  IF ~value.ok THEN UnableToReadField(Head(field_ids), value)
             ELSE collect_optional_fields(
                      value.rest, strict_, Tail(field_ids),
                      Append(scanned_fields, << Head(field_ids), value.val >>))

\* Parser::parse: the field lists it hands to collect_required_fields and
\* collect_optional_fields.
RootFieldIds == << "PassengerName", "ElectronicTicketIndicator" >>
LegFieldIds ==
    << "OperatingCarrierPnrCode", "FromCityAirportCode", "ToCityAirportCode",
       "OperatingCarrierDesignator", "FlightNumber", "DateOfFlight",
       "CompartmentCode", "SeatNumber", "CheckInSequenceNumber",
       "PassengerStatus" >>
UniqueConditionalFieldIds ==
    << "PassengerDescription", "SourceOfCheckIn", "SourceOfBoardingPassIssuance",
       "DateOfIssueOfBoardingPass", "DocumentType",
       "AirlineDesignatorOfBoardingPassIssuer", "BaggageTagLicensePlateNumbers",
       "FirstNonConsecutiveBaggageTagLicensePlateNumber",
       "SecondNonConsecutiveBaggageTagLicensePlateNumber" >>
RepeatedConditionalFieldIds ==
    << "AirlineNumericCode", "DocumentFormSerialNumber", "SelecteeIndicator",
       "InternationalDocumentVerification", "MarketingCarrierDesignator",
       "FrequentFlyerAirlineDesignator", "FrequentFlyerNumber", "IdAdIndicator",
       "FreeBaggageAllowance", "FastTrack" >>

\* Parser::parse reads a leg in a straight line.  It is written here back to
\* front, every step an operator that is handed what the steps before it
\* read: the fields of the leg and the unique fields of the pass.
LegRead(leg_fields, unique_fields) == [fields |-> leg_fields, unique |-> unique_fields]

\* Parser::parse: "If there are any bytes left, they are for airline use."
airline_use(c, strict_, leg_fields, unique_fields) ==
    IF remaining_len(c) > 0
    THEN LET a == scan_field_len(c, "AirlineIndividualUse", remaining_len(c), strict_)
         IN  IF ~a.ok THEN UnableToReadField("AirlineIndividualUse", a)
             ELSE ParserOk(a.rest,
                      LegRead(Append(leg_fields, << "AirlineIndividualUse", a.val >>),
                              unique_fields))
    ELSE ParserOk(c, LegRead(leg_fields, unique_fields))

\* Parser::parse: "Collect repeated conditional fields."
repeated_conditional_fields(c, n, strict_, leg_fields, unique_fields) ==
    LET s == scan_field_list(c, n)
    IN  IF ~s.ok THEN ParserErr("VariableLengthFieldTooLong")
        ELSE LET f == collect_optional_fields(
                          s.val, strict_, RepeatedConditionalFieldIds, << >>)
             IN  IF ~f.ok THEN f
                 ELSE airline_use(s.rest, strict_, leg_fields \o f.val, unique_fields)

\* Parser::parse: "A nested structure of repeated conditional fields may
\* follow."
repeated_conditional_fields_len(c, strict_, leg_fields, unique_fields) ==
    LET n == scan_field(c, "FieldSizeOfStructuredMessageRepeated", TRUE)
    IN  IF ~n.ok THEN UnableToReadField("FieldSizeOfStructuredMessageRepeated", n)
        ELSE IF unwrap_or_0(n.val, 16) > 0
             THEN repeated_conditional_fields(
                      n.rest, unwrap_or_0(n.val, 16), strict_, leg_fields,
                      unique_fields)
        ELSE airline_use(n.rest, strict_, leg_fields, unique_fields)

\* Parser::parse: "Collect all the provided unique conditional fields."
unique_conditional_fields(c, n, strict_, leg_fields) ==
    LET s == scan_field_list(c, n)
    IN  IF ~s.ok THEN ParserErr("VariableLengthFieldTooLong")
        ELSE LET f == collect_optional_fields(
                          s.val, strict_, UniqueConditionalFieldIds, << >>)
             IN  IF ~f.ok THEN f
                 ELSE repeated_conditional_fields_len(
                          s.rest, strict_, leg_fields, f.val)

\* Parser::parse: "A nested structure of unique conditional fields may
\* follow."
unique_conditional_fields_len(c, strict_, leg_fields) ==
    LET n == scan_field(c, "FieldSizeOfStructuredMessageUnique", TRUE)
    IN  IF ~n.ok THEN UnableToReadField("FieldSizeOfStructuredMessageUnique", n)
        ELSE IF unwrap_or_0(n.val, 16) > 0
             THEN unique_conditional_fields(
                      n.rest, unwrap_or_0(n.val, 16), strict_, leg_fields)
        ELSE repeated_conditional_fields_len(n.rest, strict_, leg_fields, << >>)

\* Parser::parse: "Collect unique conditional fields."  The result of
\* scanning the version number is dropped.
marker(c, strict_, leg_index, leg_fields) ==
    IF leg_index = 0
    THEN LET m == scan_field(c, "BeginningOfVersionNumber", TRUE)
         IN  IF ~m.ok THEN UnableToReadField("BeginningOfVersionNumber", m)
             ELSE IF m.val # Str(<< ">" >>)
                  THEN ParserErr("InvalidStartOfVersionNumber")
             ELSE unique_conditional_fields_len(
                      scan_field(m.rest, "VersionNumber", TRUE).rest, strict_,
                      leg_fields)
    ELSE repeated_conditional_fields_len(c, strict_, leg_fields, << >>)

\* Parser::parse: "Conditional fields section."
conditional_fields(i, n, strict_, leg_index, leg_fields) ==
    LET s == scan_field_list(i, n)
    IN  IF ~s.ok THEN ParserErr("VariableLengthFieldTooLong")
        ELSE LET r == marker(s.val, strict_, leg_index, leg_fields)
             IN  IF ~r.ok THEN r ELSE ParserOk(s.rest, r.val)

\* Parser::parse: "A conditional section follows."
conditional_fields_len(i, strict_, leg_index, leg_fields) ==
    LET n == scan_field(i, "FieldSizeOfVariableSizeField", TRUE)
    IN  IF ~n.ok THEN UnableToReadField("FieldSizeOfVariableSizeField", n)
        ELSE IF unwrap_or_0(n.val, 16) > 0
             THEN conditional_fields(
                      n.rest, unwrap_or_0(n.val, 16), strict_, leg_index, leg_fields)
        ELSE ParserOk(n.rest, LegRead(leg_fields, << >>))

\* Parser::parse: the body of "Scan each encoded leg."
scan_leg(i, strict_, leg_index) ==
    LET m == collect_required_fields(i, strict_, LegFieldIds, << >>)
    IN  IF ~m.ok THEN m
        ELSE conditional_fields_len(m.rest, strict_, leg_index, m.val)

\* Parser::parse: "Scan the root-level mandatory items", after the number of
\* legs n.
root_fields(i, n, strict_) ==
    LET r == collect_required_fields(i, strict_, RootFieldIds, << >>)
    IN  IF ~r.ok THEN r ELSE ParserOk(r.rest, [legs_encoded |-> n, unique |-> r.val])

\* Parser::parse: "Read the number of embedded flight legs."
legs_encoded(i, strict_) ==
    LET n == scan_field(i, "NumberOfLegsEncoded", TRUE)
    IN  IF ~n.ok THEN UnableToReadField("NumberOfLegsEncoded", n)
        ELSE IF unwrap_or_0(n.val, 10) = 0 THEN ParserErr("NoLegs")
        ELSE root_fields(n.rest, unwrap_or_0(n.val, 10), strict_)

\* Parser::parse, up to the first leg.
parse_root(i, strict_) ==
    LET format_code == scan_field(i, "FormatCode", TRUE)
    IN  IF ~format_code.ok THEN ParserErr("MissingFormatSpecifier")
        ELSE IF format_code.val # Str(<< "M" >>)
             THEN IF Len(format_code.val) = 0 THEN ParserErr("panic")
                  ELSE ParserErr("UnsupportedFormat")
        ELSE legs_encoded(format_code.rest, strict_)

\* parse: MINIMUM_LENGTH.
MINIMUM_LENGTH ==
    len("FormatCode") + len("NumberOfLegsEncoded") + len("PassengerName")
      + len("ElectronicTicketIndicator")

\* The inputs of parse: passes of 1..MaxLegs legs with a conditional section
\* in every leg and a one-leg pass without one, each as it is and with the
\* text of one or two of its fields replaced; passes cut short; a pass of
\* another format; a text that is not ASCII.
StrictText(n) == << Ord("M"), 48 + n >> \o NameText \o << Ord("E") >> \o FullLegs(n)
StrictBareText ==
    << Ord("M"), 49 >> \o NameText \o << Ord("E") >>
      \o LegText(MandatoryText(1), << >>)
StrictBaseTexts == { StrictText(n) : n \in 1..MaxLegs } \cup { StrictBareText }

\* A replacement << o, w >> puts the text w at offset o.
Replaced(t, v) ==
    IF v[1] + Len(v[2]) <= Len(t)
    THEN Take(t, v[1]) \o v[2] \o Drop(t, v[1] + Len(v[2]))
    ELSE t
Replacements ==
    { << 1, Str(<< "A" >>) >>, << 1, Str(<< " " >>) >>, << 1, Str(<< "0" >>) >>,
      << 23, Str(<< "a","b","c","1","2","3","4" >>) >>,
      << 30, Str(<< "y","u","l" >>) >>, << 30, Str(<< "Y","1","L" >>) >>,
      << 30, Spaces(3) >>,
      << 33, Str(<< "F"," ","A" >>) >>, << 33, Spaces(3) >>,
      << 39, Str(<< "0","8","3","4","A" >>) >>,
      << 39, Str(<< "A","B","C","D","E" >>) >>,
      << 39, Str(<< "0","8","3"," ","4" >>) >>, << 39, Spaces(5) >>,
      << 44, Str(<< "3","A","6" >>) >>, << 44, Spaces(3) >>,
      << 47, Str(<< "j" >>) >>, << 47, Str(<< "1" >>) >>, << 47, Spaces(1) >>,
      << 67, Str(<< "6","2","A","5" >>) >>, << 67, Spaces(4) >>,
      << 77, Str(<< "0","X","4" >>) >>, << 77, Spaces(3) >>,
      << 92, << 1, Ord("X") >> >> }
StrictCutTexts == { Take(StrictText(1), n) : n \in { 0, 10, 22, 23, 40, 59, 61, 70 } }
StrictInputs ==
    { Replaced(Replaced(t, v), w) :
        t \in StrictBaseTexts, v \in Replacements, w \in Replacements }
      \cup StrictBaseTexts \cup StrictCutTexts
      \cup { Replaced(StrictText(1), << 0, Str(<< "X" >>) >>),
             WithNonAscii(StrictText(1), 3) }

\* parse returns Ok(target) or an error.
ParserResultOk(unique_fields, leg_list) ==
    [ok |-> TRUE, error |-> "", field |-> "", reason |-> "",
     value |-> [unique_fields |-> unique_fields, legs |-> leg_list]]
ParserResultErr(e) ==
    [ok |-> FALSE, error |-> e.error, field |-> e.field, reason |-> e.reason,
     value |-> NoValue]

InitStrict ==
    /\ input \in StrictInputs
    /\ strict \in BOOLEAN
    /\ field_value = << >>
    /\ offset = 0
    /\ scanned = << >>
    /\ leg_read = << >>
    /\ pc = "parse"
    /\ rest = << >>
    /\ number_of_legs_encoded = 0
    /\ passenger_name = << >>
    /\ electronic_ticket_indicator = 0
    /\ legs = << >>
    /\ metadata = << >>
    /\ security_data_v = DefaultSecurityData
    /\ nom_err = NoValue
    /\ result = NoValue

\* parse: the checks in front of the parser, and Parser::new.
Parse ==
    /\ pc = "parse"
    /\ IF ~is_ascii(input)
       THEN /\ result' = ParserResultErr(ParserErr("InvalidCharacters"))
            /\ pc' = "done"
            /\ UNCHANGED rest
       ELSE IF Len(input) < MINIMUM_LENGTH
       THEN /\ result' = ParserResultErr(ParserErr("TooShort"))
            /\ pc' = "done"
            /\ UNCHANGED rest
       ELSE /\ rest' = input
            /\ pc' = "root"
            /\ UNCHANGED result
    /\ UNCHANGED <<input, number_of_legs_encoded, passenger_name,
                   electronic_ticket_indicator, legs, metadata,
                   security_data_v, nom_err, strict, field_value,
                   offset, scanned, leg_read>>

\* Parser::parse, up to the loop over the legs.
ParserRoot ==
    /\ pc = "root"
    /\ LET r == parse_root(rest, strict)
       IN  IF ~r.ok
           THEN /\ result' = ParserResultErr(r)
                /\ pc' = "done"
                /\ UNCHANGED <<rest, number_of_legs_encoded, metadata>>
           ELSE /\ rest' = r.rest
                /\ number_of_legs_encoded' = r.val.legs_encoded
                /\ metadata' = r.val.unique
                /\ pc' = "leg"
                /\ UNCHANGED result
    /\ UNCHANGED <<input, passenger_name, electronic_ticket_indicator, legs,
                   security_data_v, nom_err, strict, field_value,
                   offset, scanned, leg_read>>

\* Parser::parse: one turn of the loop over the legs, and the return after
\* the last one.
ParserLeg ==
    /\ pc = "leg"
    /\ Len(legs) < number_of_legs_encoded
    /\ LET r == scan_leg(rest, strict, Len(legs))
       IN  IF ~r.ok
           THEN /\ result' = ParserResultErr(r)
                /\ pc' = "done"
                /\ UNCHANGED <<rest, legs, metadata>>
           ELSE /\ rest' = r.rest
                /\ legs' = Append(legs, r.val.fields)
                /\ metadata' = metadata \o r.val.unique
                /\ IF Len(legs) + 1 = number_of_legs_encoded
                   THEN /\ result' = ParserResultOk(metadata', legs')
                        /\ pc' = "done"
                   ELSE UNCHANGED <<result, pc>>
    /\ UNCHANGED <<input, number_of_legs_encoded, passenger_name,
                   electronic_ticket_indicator, security_data_v, nom_err, strict, field_value,
                   offset, scanned, leg_read>>

NextStrict ==
    \/ Parse
    \/ ParserRoot
    \/ ParserLeg

SpecStrict == InitStrict /\ [][NextStrict]_vars

-----------------------------------------------------------------------------
(* Properties of parse.                                                    *)

\* The character classes of the catalog: digits, the letters A to Z, the
\* shape of a flight number; every other field takes any ASCII text.
NumericalFields ==
    { "NumberOfLegsEncoded", "DateOfIssueOfBoardingPass", "DateOfFlight",
      "AirlineNumericCode" }
AlphabeticalFields == { "FromCityAirportCode", "ToCityAirportCode", "CompartmentCode" }
Conforms(field_id, text) ==
    CASE field_id \in NumericalFields ->
           \A k \in 1..Len(text) : text[k] \in 48..57
      [] field_id \in AlphabeticalFields ->
           \A k \in 1..Len(text) : text[k] \in 65..90
      [] field_id = "FlightNumber" ->
           /\ \A k \in 1..4 : text[k] \in 48..57
           /\ text[5] \in (65..90) \cup { 32 }
      [] OTHER -> \A k \in 1..Len(text) : text[k] \in 0..127
Blank(text) == \A k \in 1..Len(text) : text[k] = 32
Acceptable(field_id, text) == Blank(text) \/ Conforms(field_id, text)

\* The fields in front of the first conditional section, each with its
\* offset in the input.
FixedFields ==
    << << "NumberOfLegsEncoded", 1 >>, << "PassengerName", 2 >>,
       << "ElectronicTicketIndicator", 22 >>, << "OperatingCarrierPnrCode", 23 >>,
       << "FromCityAirportCode", 30 >>, << "ToCityAirportCode", 33 >>,
       << "OperatingCarrierDesignator", 36 >>, << "FlightNumber", 39 >>,
       << "DateOfFlight", 44 >>, << "CompartmentCode", 47 >>,
       << "SeatNumber", 48 >>, << "CheckInSequenceNumber", 52 >>,
       << "PassengerStatus", 57 >> >>
FixedField(k) == FixedFields[k][1]
FixedText(k) == At(FixedFields[k][2], len(FixedFields[k][1]))
Rejected(k) == ~Acceptable(FixedField(k), FixedText(k))
FirstRejected(k) == Rejected(k) /\ \A j \in 1..(k - 1) : ~Rejected(j)

\* The input is a pass in which parse gets as far as the fields of the
\* first leg unless it rejects a field.
HasFixedFields ==
    /\ is_ascii(input)
    /\ Len(input) >= 58
    /\ input[1] = Ord("M")
    /\ input[2] \notin { 32, 48 }

\* parse has failed on the shape of a field: the ValidationFailed of the
\* specification.
ShapeRejected ==
    Done /\ ~result.ok /\ result.error = "UnableToReadField"
         /\ result.reason = "InvalidCharacter"
ValidationFailed(field_id) == ShapeRejected /\ result.field = field_id

AllAcceptable(scanned_fields) ==
    \A k \in 1..Len(scanned_fields) :
        \/ scanned_fields[k][1] = "AirlineIndividualUse"
        \/ Acceptable(scanned_fields[k][1], scanned_fields[k][2])

\* In strict mode the first of the fixed fields that is neither blank nor of
\* its class makes parse fail with ValidationFailed for that field, and a
\* pass parse accepts has no such field, in any leg or section.
StrictRejectsMismatch ==
    (strict /\ Done) =>
        /\ HasFixedFields =>
               \A k \in 1..Len(FixedFields) :
                   FirstRejected(k) => ValidationFailed(FixedField(k))
        /\ result.ok =>
               /\ AllAcceptable(result.value.unique_fields)
               /\ \A l \in 1..Len(result.value.legs) :
                      AllAcceptable(result.value.legs[l])

\* A blank field is never the one ValidationFailed names: the field named is
\* the first that is neither blank nor of its class.
BlankIsAccepted ==
    (Done /\ HasFixedFields /\ Len(legs) = 0) =>
        \A k \in 1..Len(FixedFields) :
            ValidationFailed(FixedField(k)) => FirstRejected(k)

C21_LegCountIsDecimal ==
    /\ (Done /\ is_ascii(input) /\ Len(input) >= 2 /\ input[1] = Ord("M")
             /\ ~is_ascii_digit(input[2]))
           => /\ ~result.ok
              /\ result.error \in { "ExpectedInteger", "ParseFailed" }
              /\ result.ctx = "NumberOfLegsEncoded"
    /\ Succeeded => Len(legs) <= 9

\* from_str has decoded a pass of ten legs.
TenLegsDecoded == Succeeded /\ Len(legs) = 10 /\ input[2] = Ord("A")

\* The uppercase hexadecimal digits; a text that begins with two of them.
UpperHexBytes == (48..57) \cup (65..70)
IsSizeText(t) == Len(t) >= 2 /\ t[1] \in UpperHexBytes /\ t[2] \in UpperHexBytes
\* The number the two digits are in base 16.
HexValue(b) == IF b <= 57 THEN b - 48 ELSE b - 55
SizeValue(t) == 16 * HexValue(t[1]) + HexValue(t[2])

\* Where the four size fields stand when the decoder gets to them: the two
\* bytes of the field, and the number of input bytes in front of them.
LegSizeReached == BeforeLeg /\ Len(rest) >= 37
LegSizeText == SubSeq(rest, 36, 37)
UniqueSizeReached ==
    /\ LegCarved /\ FirstLeg
    /\ Len(CurrentSection) >= 4 /\ CurrentSection[1] = Ord(">")
UniqueSizeText == SubSeq(CurrentSection, 3, 4)
RepeatedSizeReached ==
    /\ LegCarved
    /\ RepeatedReached(CurrentSection)
    /\ Len(RepeatedPart(CurrentSection)) >= 2
RepeatedSizeText == Take(RepeatedPart(CurrentSection), 2)
RepeatedSizeStart == LegStart + 37 + DeclaredSize - Len(RepeatedPart(CurrentSection))
SecuritySizeReached == AfterLastLeg /\ Len(rest) >= 4 /\ rest[1] = Ord("^")
SecuritySizeText == SubSeq(rest, 3, 4)

-----------------------------------------------------------------------------
(* ffi/mod.rs: the C accessor of the fields of a flight leg.                *)

kBcbpFlightLegFieldIdUnknown == 0
kBcbpFlightLegFieldIdOperatingCarrierPNRCode == 1
kBcbpFlightLegFieldIdFromCityAirportCode == 2
kBcbpFlightLegFieldIdToCityAirportCode == 3
kBcbpFlightLegFieldIdOperatingCarrierDesignator == 4
kBcbpFlightLegFieldIdFlightNumber == 5
kBcbpFlightLegFieldIdDateOfFlight == 6
kBcbpFlightLegFieldIdCompartmentCode == 7
kBcbpFlightLegFieldIdSeatNumber == 8
kBcbpFlightLegFieldIdCheckInSequenceNumber == 9
kBcbpFlightLegFieldIdPassengerStatus == 10
kBcbpFlightLegFieldIdAirlineNumericCode == 11
kBcbpFlightLegFieldIdDocumentFormSerialNumber == 12
kBcbpFlightLegFieldIdSelecteeIndicator == 13
kBcbpFlightLegFieldIdInternationalDocumentVerification == 14
kBcbpFlightLegFieldIdMarketingCarrierDesignator == 15
kBcbpFlightLegFieldIdFrequentFlyerAirlineDesignator == 16
kBcbpFlightLegFieldIdFrequentFlyerNumber == 17
kBcbpFlightLegFieldIdIdAdIndicator == 18
kBcbpFlightLegFieldIdFreeBaggageAllowance == 19
kBcbpFlightLegFieldIdFastTrack == 19
kBcbpFlightLegFieldIdAirlineIndividualUse == 20

\* ffi::CString::new(s).ok(): None when s holds a NUL byte.
CString(s) == IF \E k \in 1..Len(s) : s[k] = 0 THEN None ELSE Some(s)
\* Option::and_then(|s| ffi::CString::new(s).ok())
and_then_CString(o) == IF o = None THEN None ELSE CString(o[1])
\* Option::and_then(|c| ffi::CString::new(vec![c as u8]).ok())
and_then_CString_of_char(o) == IF o = None THEN None ELSE CString(<< o[1] >>)

\* BcbpCopyFlightLegField: "Extract the specified field".
flight_leg_field_value(flight_leg, field_id) ==
    IF field_id = kBcbpFlightLegFieldIdOperatingCarrierPNRCode
    THEN CString(flight_leg.operating_carrier_pnr_code)
    ELSE IF field_id = kBcbpFlightLegFieldIdFromCityAirportCode
    THEN CString(flight_leg.from_city_airport_code)
    ELSE IF field_id = kBcbpFlightLegFieldIdToCityAirportCode
    THEN CString(flight_leg.to_city_airport_code)
    ELSE IF field_id = kBcbpFlightLegFieldIdOperatingCarrierDesignator
    THEN CString(flight_leg.operating_carrier_designator)
    ELSE IF field_id = kBcbpFlightLegFieldIdFlightNumber
    THEN CString(flight_leg.flight_number)
    ELSE IF field_id = kBcbpFlightLegFieldIdDateOfFlight
    THEN CString(flight_leg.date_of_flight)
    ELSE IF field_id = kBcbpFlightLegFieldIdCompartmentCode
    THEN CString(<< flight_leg.compartment_code >>)
    ELSE IF field_id = kBcbpFlightLegFieldIdSeatNumber
    THEN CString(flight_leg.seat_number)
    ELSE IF field_id = kBcbpFlightLegFieldIdCheckInSequenceNumber
    THEN CString(flight_leg.check_in_sequence_number)
    ELSE IF field_id = kBcbpFlightLegFieldIdPassengerStatus
    THEN CString(<< flight_leg.passenger_status >>)
    ELSE IF field_id = kBcbpFlightLegFieldIdAirlineNumericCode
    THEN and_then_CString(flight_leg.airline_numeric_code)
    ELSE IF field_id = kBcbpFlightLegFieldIdDocumentFormSerialNumber
    THEN and_then_CString(flight_leg.document_form_serial_number)
    ELSE IF field_id = kBcbpFlightLegFieldIdSelecteeIndicator
    THEN and_then_CString_of_char(flight_leg.selectee_indicator)
    ELSE IF field_id = kBcbpFlightLegFieldIdInternationalDocumentVerification
    THEN and_then_CString_of_char(flight_leg.international_document_verification)
    ELSE IF field_id = kBcbpFlightLegFieldIdMarketingCarrierDesignator
    THEN and_then_CString(flight_leg.marketing_carrier_designator)
    ELSE IF field_id = kBcbpFlightLegFieldIdFrequentFlyerAirlineDesignator
    THEN and_then_CString(flight_leg.frequent_flyer_airline_designator)
    ELSE IF field_id = kBcbpFlightLegFieldIdFrequentFlyerNumber
    THEN and_then_CString(flight_leg.frequent_flyer_number)
    ELSE IF field_id = kBcbpFlightLegFieldIdIdAdIndicator
    THEN and_then_CString_of_char(flight_leg.id_ad_indicator)
    ELSE IF field_id = kBcbpFlightLegFieldIdFreeBaggageAllowance
    THEN and_then_CString(flight_leg.free_baggage_allowance)
    ELSE IF field_id = kBcbpFlightLegFieldIdFastTrack
    THEN and_then_CString_of_char(flight_leg.fast_track)
    ELSE IF field_id = kBcbpFlightLegFieldIdAirlineIndividualUse
    THEN and_then_CString(flight_leg.airline_individual_use)
    ELSE None

\* BcbpCopyFlightLegField(bcbp_ptr, leg, field_id): the string returned, None
\* for the null pointer.  bcbp_ptr is BcbpCreateWithCString's: null when
\* from_str failed.
copy_flight_leg_field(leg_index, field_id) ==
    IF ~result.ok THEN None
    ELSE IF leg_index < 0 \/ leg_index >= Len(legs) THEN None
    ELSE flight_leg_field_value(legs[leg_index + 1], field_id)

\* The passes the accessor is called on: with every repeated field, with
\* some, with none, and a text from_str rejects.
FfiInputs ==
    { FullText(n) : n \in 1..MaxLegs }
      \cup { << Ord("M"), 49 >> \o NameText \o << Ord("E") >>
               \o LegText(MandatoryText(1),
                          SectionText(TRUE, UniqueText, r, IndividualUseText)) :
             r \in { RepeatedFullText, Take(RepeatedFullText, 41) } }
      \cup { << Ord("M"), 49 >> \o NameText \o << Ord("E") >>
               \o LegText(MandatoryText(1), << >>),
             Take(FullText(1), 40) }

\* The leg indices and the field identifiers of the calls.
FfiLegs == -1..MaxLegs
FfiFieldIds == 0..21

InitFfi ==
    /\ input \in FfiInputs
    /\ pc = "from_str"
    /\ rest = << >>
    /\ number_of_legs_encoded = 0
    /\ passenger_name = << >>
    /\ electronic_ticket_indicator = 0
    /\ legs = << >>
    /\ metadata = DefaultConditionalMetadata
    /\ security_data_v = DefaultSecurityData
    /\ nom_err = NoValue
    /\ result = NoValue
    /\ strict = FALSE
    /\ field_value = << >>
    /\ offset = 0
    /\ scanned = << >>
    /\ leg_read = << >>

\* A call of BcbpCopyFlightLegField on the pass BcbpCreateWithCString made
\* of the input.
BcbpCopyFlightLegField ==
    /\ pc = "done"
    /\ \E leg_index \in FfiLegs, field_id \in FfiFieldIds :
          field_value' = [ leg |-> leg_index, field_id |-> field_id,
                           value |-> copy_flight_leg_field(leg_index, field_id) ]
    /\ pc' = "copied"
    /\ UNCHANGED <<input, rest, number_of_legs_encoded, passenger_name,
                   electronic_ticket_indicator, legs, metadata,
                   security_data_v, nom_err, result, strict,
                   offset, scanned, leg_read>>

NextFfi ==
    \/ FromStrBegin
    \/ BcbpHeader
    \/ BcbpLeg
    \/ BcbpSecurityData
    \/ BcbpCopyFlightLegField

SpecFfi == InitFfi /\ [][NextFfi]_vars

\* BcbpCopyFlightLegField has returned from a call for a leg of the pass.
Copied == pc = "copied" /\ result.ok /\ field_value.leg \in 0..(Len(legs) - 1)
CopiedLeg == legs[field_value.leg + 1]

\* C23: the flight-leg field identifiers are pairwise distinct, so that
\* BcbpCopyFlightLegField with kBcbpFlightLegFieldIdFastTrack returns a copy
\* of the leg's fast-track value (null when it is absent) and with
\* kBcbpFlightLegFieldIdFreeBaggageAllowance a copy of its free baggage
\* allowance.
C23_FieldIdsAreDistinct ==
    /\ Copied =>
          kBcbpFlightLegFieldIdFastTrack # kBcbpFlightLegFieldIdFreeBaggageAllowance
    /\ (Copied /\ field_value.field_id = kBcbpFlightLegFieldIdFastTrack)
          => field_value.value =
                 IF CopiedLeg.fast_track = None THEN None
                 ELSE Some(<< CopiedLeg.fast_track[1] >>)
    /\ (Copied /\ field_value.field_id = kBcbpFlightLegFieldIdFreeBaggageAllowance)
          => field_value.value = CopiedLeg.free_baggage_allowance

\* The copy of the fast-track field of a leg that has one is the leg's free
\* baggage allowance.
FastTrackIsFreeBaggageAllowance ==
    /\ Copied
    /\ field_value.field_id = kBcbpFlightLegFieldIdFastTrack
    /\ CopiedLeg.fast_track # None
    /\ field_value.value = CopiedLeg.free_baggage_allowance
    /\ field_value.value # Some(<< CopiedLeg.fast_track[1] >>)

-----------------------------------------------------------------------------
(* scanner.rs: the Scanner of the decoder of lib.rs.  The input is a str,  *)
(* given by its UTF-8 bytes; the offset counts bytes and always stands at  *)
(* the start of a character.  A u64 is given by its digits in the radix it *)
(* was read in, without leading zeros.                                     *)

\* char::len_utf8 of the character whose first byte is b.
len_utf8(b) == IF b < 128 THEN 1 ELSE IF b < 224 THEN 2 ELSE IF b < 240 THEN 3 ELSE 4

\* self.remaining().chars().next(): the character at the offset, by its code
\* point (of one or two bytes) and its length in bytes.
next_char(i, off) ==
    IF off >= Len(i) THEN None
    ELSE IF i[off + 1] < 128 THEN Some([code |-> i[off + 1], len |-> 1])
    ELSE Some([code |-> (i[off + 1] - 192) * 64 + (i[off + 2] - 128),
               len |-> len_utf8(i[off + 1])])

\* CharacterSet::contains, of a code point.
contains(set, character) ==
    CASE set = "All" -> character <= 127
      [] set = "IataAlphaNumerical" -> character <= 127
      [] set = "IataNumerical" -> character <= 127 /\ is_ascii_digit(character)
      [] set = "IataNumericalHexadecimal" ->
           /\ character <= 127
           /\ is_ascii_hexdigit(character)
           /\ (is_ascii_uppercase(character) \/ is_ascii_digit(character))
      [] set = "IataAlphabetical" -> is_ascii_uppercase(character)

\* Scanner::remaining, by its length.
remaining(i, off) == Drop(i, off)

\* An advance_by that sets the offset to the number of bytes.
advance_by_reset(i, off, bytes) == bytes

\* Scanner::advance_by: the assertion, and the offset after it.
advance_by_asserts(i, off, bytes) == Len(remaining(i, off)) >= bytes
advance_by(i, off, bytes) == off + bytes

\* Scanner::peek: the bytes and the number of the first `characters`
\* characters of the remaining input, and the substring if it has them all.
RECURSIVE take_chars(_, _, _)
take_chars(i, off, characters) ==
    IF characters = 0 \/ off >= Len(i) THEN << 0, 0 >>
    ELSE LET t == take_chars(i, off + len_utf8(i[off + 1]), characters - 1)
         IN  << len_utf8(i[off + 1]) + t[1], 1 + t[2] >>
peek(i, off, characters) ==
    LET t == take_chars(i, off, characters)
    IN  IF t[2] = characters THEN Some(SubSeq(i, off + 1, off + t[1])) ELSE None

\* What a scan returns: the offset after it, Ok(val) or Err(err) (for
\* scan_character: true or false), and whether an assertion failed in it.
Scanned(off, v) == [offset |-> off, ok |-> TRUE, val |-> v, err |-> "", panic |-> FALSE]
ScanFailed(off, e) == [offset |-> off, ok |-> FALSE, val |-> << >>, err |-> e, panic |-> FALSE]
Advanced(i, off, bytes, v) ==
    IF advance_by_asserts(i, off, bytes) THEN Scanned(advance_by(i, off, bytes), v)
    ELSE [offset |-> off, ok |-> FALSE, val |-> << >>, err |-> "", panic |-> TRUE]

\* Scanner::scan_character.  The character found shadows the parameter.
scan_character(i, off, character) ==
    IF next_char(i, off) # None
    THEN Advanced(i, off, next_char(i, off)[1].len, TRUE)
    ELSE ScanFailed(off, "")

\* A scan_character_from_set that advances before it checks the set.
scan_character_from_set_eager(i, off, set) ==
    IF next_char(i, off) = None THEN ScanFailed(off, "FieldLongerThanRemainingInput")
    ELSE IF ~contains(set, next_char(i, off)[1].code)
         THEN ScanFailed(off + next_char(i, off)[1].len, "InvalidCharacter")
    ELSE Advanced(i, off, next_char(i, off)[1].len, next_char(i, off)[1].code)

\* Scanner::scan_character_from_set
scan_character_from_set(i, off, set) ==
    IF next_char(i, off) = None THEN ScanFailed(off, "FieldLongerThanRemainingInput")
    ELSE IF ~contains(set, next_char(i, off)[1].code)
         THEN ScanFailed(off, "InvalidCharacter")
    ELSE Advanced(i, off, next_char(i, off)[1].len, next_char(i, off)[1].code)

\* The substring has a character outside the set.  (When it has none its
\* characters are ASCII, one byte each.)
RECURSIVE has_invalid(_, _, _)
has_invalid(substring, k, set) ==
    IF k >= Len(substring) THEN FALSE
    ELSE \/ ~contains(set, next_char(substring, k)[1].code)
         \/ has_invalid(substring, k + len_utf8(substring[k + 1]), set)

\* Scanner::scan_characters_from_set
scan_characters_from_set(i, off, characters, set) ==
    LET substring == peek(i, off, characters)
    IN  IF substring = None THEN ScanFailed(off, "FieldLongerThanRemainingInput")
        ELSE IF has_invalid(substring[1], 0, set) THEN ScanFailed(off, "InvalidCharacter")
        ELSE Advanced(i, off, Len(substring[1]), substring[1])

\* u64::MAX in the radix, and u64::from_str_radix of a text of digits of the
\* radix: None for the empty text and for a number above u64::MAX.
U64Max(radix) ==
    IF radix = 10
    THEN << 1, 8, 4, 4, 6, 7, 4, 4, 0, 7, 3, 7, 0, 9, 5, 5, 1, 6, 1, 5 >>
    ELSE [k \in 1..16 |-> 15]
RECURSIVE StripZeros(_)
StripZeros(d) == IF d # << >> /\ Head(d) = 0 THEN StripZeros(Tail(d)) ELSE d
NotAbove(d, m) ==
    \/ Len(d) < Len(m)
    \/ /\ Len(d) = Len(m)
       /\ \/ d = m
          \/ \E k \in 1..Len(d) : d[k] < m[k] /\ \A j \in 1..(k - 1) : d[j] = m[j]
from_str_radix(slice, radix) ==
    LET d == StripZeros([k \in 1..Len(slice) |-> HexDigitValue(slice[k])])
    IN  IF Len(slice) = 0 \/ ~NotAbove(d, U64Max(radix)) THEN None ELSE Some(d)

\* Scanner::scan_numeric
scan_numeric(i, off, characters, set, radix) ==
    LET slice == peek(i, off, characters)
    IN  IF slice = None THEN ScanFailed(off, "FieldLongerThanRemainingInput")
        ELSE IF has_invalid(slice[1], 0, set) THEN ScanFailed(off, "InvalidCharacter")
        ELSE IF from_str_radix(slice[1], radix) = None
             THEN ScanFailed(off, "NumericLiteralOutOfRange")
        ELSE Advanced(i, off, Len(slice[1]), from_str_radix(slice[1], radix)[1])

\* Scanner::scan_decimal, Scanner::scan_hexadecimal
scan_decimal(i, off, characters) ==
    scan_numeric(i, off, characters, "IataNumerical", 10)
scan_hexadecimal(i, off, characters) ==
    scan_numeric(i, off, characters, "IataNumericalHexadecimal", 16)

(* The scanner on its own: any sequence of scans of a text. *)

DecimalMaxText == [k \in 1..20 |-> 48 + U64Max(10)[k]]
ScannerInputs ==
    { Str(<< "M","1","A"," ",">","^" >>),
      << Ord("1"), 195, 167, Ord("2") >>,
      Str(<< "0","0","1","2","a","F" >>),
      DecimalMaxText,
      Take(DecimalMaxText, 19) \o << Ord("6") >>,
      [k \in 1..16 |-> Ord("F")],
      << Ord("1") >> \o [k \in 1..16 |-> Ord("0")],
      << >> }
ScanCharacters == { Ord(">"), Ord("^"), Ord(" "), Ord("1") }
ScanLengths == { 0, 1, 2, 3, 4, 16, 17, 20 }
CharacterSets ==
    { "All", "IataAlphaNumerical", "IataNumerical", "IataNumericalHexadecimal",
      "IataAlphabetical" }

\* Scanner::new
InitScanner ==
    /\ input \in ScannerInputs
    /\ pc = "scanner"
    /\ rest = << >>
    /\ number_of_legs_encoded = 0
    /\ passenger_name = << >>
    /\ electronic_ticket_indicator = 0
    /\ legs = << >>
    /\ metadata = DefaultConditionalMetadata
    /\ security_data_v = DefaultSecurityData
    /\ nom_err = NoValue
    /\ result = NoValue
    /\ strict = FALSE
    /\ field_value = << >>
    /\ offset = 0
    /\ scanned = << >>
    /\ leg_read = << >>

\* The scan that was made: its name and arguments, the offset before it, and
\* what it returned.
ScanOf(op, character, characters, set, r) ==
    [ op |-> op, character |-> character, characters |-> characters, set |-> set,
      before |-> offset, ok |-> r.ok, val |-> r.val, err |-> r.err,
      panic |-> r.panic ]

Scan(op, character, characters, set, r) ==
    /\ pc = "scanner"
    /\ offset' = r.offset
    /\ scanned' = ScanOf(op, character, characters, set, r)
    /\ UNCHANGED <<input, pc, rest, number_of_legs_encoded, passenger_name,
                   electronic_ticket_indicator, legs, metadata,
                   security_data_v, nom_err, result, strict, field_value,
                   leg_read>>

ScanCharacter ==
    \E character \in ScanCharacters :
        Scan("scan_character", character, 1, "",
             scan_character(input, offset, character))

ScanCharacterFromSet ==
    \E set \in CharacterSets :
        Scan("scan_character_from_set", 0, 1, set,
             scan_character_from_set(input, offset, set))

ScanCharactersFromSet ==
    \E characters \in ScanLengths, set \in CharacterSets :
        Scan("scan_characters_from_set", 0, characters, set,
             scan_characters_from_set(input, offset, characters, set))

ScanDecimal ==
    \E characters \in ScanLengths :
        Scan("scan_numeric", 0, characters, "IataNumerical",
             scan_decimal(input, offset, characters))

ScanHexadecimal ==
    \E characters \in ScanLengths :
        Scan("scan_numeric", 0, characters, "IataNumericalHexadecimal",
             scan_hexadecimal(input, offset, characters))

NextScanner ==
    \/ ScanCharacter
    \/ ScanCharacterFromSet
    \/ ScanCharactersFromSet
    \/ ScanDecimal
    \/ ScanHexadecimal

SpecScanner == InitScanner /\ [][NextScanner]_vars

(* Claims about the scanner *)

HasScanned(ops) == scanned # << >> /\ scanned.op \in ops
SetScans == { "scan_character_from_set", "scan_characters_from_set", "scan_numeric" }
\* The number of characters in the bytes of the input from a to b.
CharsBetween(a, b) == take_chars(SubSeq(input, a + 1, b), 0, b - a)[2]

\* C24: a scan of n characters from a set (scan_character_from_set,
\* scan_characters_from_set, scan_numeric) is all or nothing: when it
\* succeeds the offset has advanced by exactly the n characters, and when it
\* fails (input too short, a character outside the set, a numeral out of
\* range) the offset is where it was.
C24_ScansAreAllOrNothing ==
    HasScanned(SetScans) =>
        /\ ~scanned.panic
        /\ scanned.ok =>
              /\ offset = scanned.before + scanned.characters
              /\ CharsBetween(scanned.before, offset) = scanned.characters
        /\ ~scanned.ok =>
              /\ offset = scanned.before
              /\ scanned.err \in { "FieldLongerThanRemainingInput",
                                   "InvalidCharacter", "NumericLiteralOutOfRange" }

\* Each way of failing has happened with input left to read, and a scan of
\* several characters has succeeded.
C24_Witness ==
    /\ HasScanned({ "scan_numeric" })
    /\ ~scanned.ok
    /\ scanned.err = "NumericLiteralOutOfRange"
    /\ scanned.characters = 20
    /\ offset = 0

C24_WitnessSucceeded ==
    /\ HasScanned({ "scan_characters_from_set" })
    /\ scanned.ok
    /\ scanned.characters = 3
    /\ offset = scanned.before + 3

C24_WitnessInvalid ==
    /\ HasScanned(SetScans)
    /\ ~scanned.ok
    /\ scanned.err = "InvalidCharacter"
    /\ scanned.characters > 1
    /\ offset < Len(input)

\* C26: scan_character(c) returns true and advances only when the next
\* character of the input is c; otherwise it returns false and the offset is
\* where it was.
C26_ScanCharacterCompares ==
    HasScanned({ "scan_character" }) =>
        /\ scanned.ok <=>
              /\ next_char(input, scanned.before) # None
              /\ next_char(input, scanned.before)[1].code = scanned.character
        /\ scanned.ok => offset = scanned.before + next_char(input, scanned.before)[1].len
        /\ ~scanned.ok => offset = scanned.before

\* scan_character has returned true on a character other than the one asked for.
ScanCharacterTookAnother ==
    /\ HasScanned({ "scan_character" })
    /\ scanned.ok
    /\ next_char(input, scanned.before)[1].code # scanned.character
    /\ offset > scanned.before

-----------------------------------------------------------------------------
(* lib.rs: the decoder built on the Scanner.  Each expect_* method makes   *)
(* its scans from the offset and maps their error to its own.              *)

\* Result::map_err on what a scan returned.
scan_map_err(r, e) == IF r.ok \/ r.panic THEN r ELSE [r EXCEPT !.err = e]
\* Result::map on what a scan returned.
scan_map(r, v) == IF r.ok THEN [r EXCEPT !.val = v] ELSE r

\* str::trim
is_whitespace(b) == b = 32 \/ (b >= 9 /\ b <= 13)
RECURSIVE trim_start(_)
trim_start(s) == IF s # << >> /\ is_whitespace(Head(s)) THEN trim_start(Tail(s)) ELSE s
RECURSIVE trim_end(_)
trim_end(s) ==
    IF s # << >> /\ is_whitespace(s[Len(s)]) THEN trim_end(Take(s, Len(s) - 1)) ELSE s
trim(s) == trim_end(trim_start(s))

\* u64 to_string, and the u64 as a number where it is small.
to_string(d) == IF d = << >> THEN << 48 >> ELSE [k \in 1..Len(d) |-> 48 + d[k]]
RECURSIVE u64_value(_)
u64_value(d) ==
    IF d = << >> THEN 0 ELSE u64_value(Take(d, Len(d) - 1)) * 10 + d[Len(d)]

expect_format_code(i, off) ==
    scan_map_err(scan_character_from_set(i, off, "IataAlphaNumerical"),
            "MissingFormatSpecifier")

expect_number_of_legs_encoded(i, off) ==
    scan_map_err(scan_decimal(i, off, 1), "ErrorParsingRequiredField(NumberOfLegs)")

expect_passenger_name(i, off) ==
    LET r == scan_characters_from_set(i, off, 20, "IataAlphaNumerical")
    IN  scan_map_err(scan_map(r, trim(r.val)), "ErrorParsingRequiredField(PassengerName)")

expect_electronic_ticket_indicator(i, off) ==
    scan_map_err(scan_character_from_set(i, off, "IataAlphaNumerical"),
            "ErrorParsingRequiredField(ElectronicTicketIndicator)")

expect_operating_carrier_pnr_code(i, off) ==
    LET r == scan_characters_from_set(i, off, 7, "IataAlphaNumerical")
    IN  scan_map_err(scan_map(r, trim(r.val)),
                "ErrorParsingRequiredField(OperatingCarrierPnrCode)")

expect_from_city_airport_code(i, off) ==
    scan_map_err(scan_characters_from_set(i, off, 3, "IataAlphabetical"),
            "ErrorParsingRequiredField(FromCityAirportCode)")

expect_to_city_airport_code(i, off) ==
    scan_map_err(scan_characters_from_set(i, off, 3, "IataAlphabetical"),
            "ErrorParsingRequiredField(ToCityAirportCode)")

expect_operating_carrier_designator(i, off) ==
    LET r == scan_characters_from_set(i, off, 3, "IataAlphaNumerical")
    IN  scan_map_err(scan_map(r, trim(r.val)),
                "ErrorParsingRequiredField(OperatingCarrierDesignator)")

\* expect_flight_number: four digits, then a letter if there is one, and
\* otherwise a scan_character(' ') whose result is dropped.
expect_flight_number(i, off) ==
    LET numeric_part == scan_decimal(i, off, 4)
        suffix == scan_character_from_set(i, numeric_part.offset, "IataAlphabetical")
        space == scan_character(i, numeric_part.offset, Ord(" "))
    IN  IF ~numeric_part.ok
        THEN scan_map_err(numeric_part, "ErrorParsingRequiredField(FlightNumber)")
        ELSE IF suffix.panic THEN suffix
        ELSE IF suffix.ok
             THEN Scanned(suffix.offset, to_string(numeric_part.val) \o << suffix.val >>)
        ELSE IF space.panic THEN space
        ELSE Scanned(space.offset, to_string(numeric_part.val))

expect_date_of_flight(i, off) ==
    LET day == scan_decimal(i, off, 3)
    IN  scan_map_err(scan_map(day, [year |-> None, day |-> u64_value(day.val)]),
                "ErrorParsingRequiredField(DateOfFlight)")

expect_compartment_code(i, off) ==
    scan_map_err(scan_character_from_set(i, off, "IataAlphabetical"),
            "ErrorParsingRequiredField(CompartmentCode)")

expect_seat_number(i, off) ==
    LET seat_row == scan_decimal(i, off, 3)
        seat_col == scan_character_from_set(i, seat_row.offset, "IataAlphabetical")
    IN  IF ~seat_row.ok
        THEN scan_map_err(seat_row, "ErrorParsingRequiredField(SeatNumber)")
        ELSE scan_map_err(scan_map(seat_col, to_string(seat_row.val) \o << seat_col.val >>),
                     "ErrorParsingRequiredField(SeatNumber)")

expect_check_in_sequence_number(i, off) ==
    LET digits == scan_characters_from_set(i, off, 4, "IataNumerical")
        optional_suffix == scan_character_from_set(i, digits.offset, "IataAlphaNumerical")
    IN  IF ~digits.ok
        THEN scan_map_err(digits, "ErrorParsingRequiredField(CheckInSequenceNumber)")
        ELSE scan_map_err(scan_map(optional_suffix,
                         IF optional_suffix.val # Ord(" ")
                         THEN digits.val \o << optional_suffix.val >>
                         ELSE digits.val),
                     "ErrorParsingRequiredField(CheckInSequenceNumber)")

expect_passenger_status(i, off) ==
    scan_map_err(scan_character_from_set(i, off, "IataAlphaNumerical"),
            "ErrorParsingRequiredField(PassengerStatus)")

(* Inputs: the example of tests/guide.rs, its prefixes, and variants of it. *)

BaExample ==
    Str(<< "M", "1", "L", "E", "O", "P", "O", "L", "D", "/", "E", "M",
           "R", " ", " ", " ", " ", " ", " ", " ", " ", " ", "E", "Z",
           "Q", "7", "O", "9", "2", " ", "G", "V", "A", "L", "H", "R",
           "B", "A", " ", "0", "0", "7", "2", "3", "3", "1", "9", "C",
           "0", "0", "2", "F", "0", "0", "0", "0", "9", "1", "0", "0" >>)

\* Where the four digits of the flight number of the example end, and the
\* example with another text for the character after them.
FlightDigitsEnd(t) == Len(t) - 17
BaWith(t) == Take(BaExample, FlightDigitsEnd(BaExample)) \o t
                 \o Drop(BaExample, FlightDigitsEnd(BaExample) + 1)
LibLeg == SubSeq(BaWith(<< Ord(" ") >>), 24, 58)
LibInputs ==
    { Take(BaExample, k) : k \in 0..Len(BaExample) }
    \cup { BaWith(<< Ord(" ") >>), BaWith(<< Ord("A") >>), BaWith(<< 195, 167 >>),
           Take(BaExample, FlightDigitsEnd(BaExample)) \o << 195, 167 >>,
           << Ord("M"), Ord("2") >> \o SubSeq(BaExample, 3, 23) \o LibLeg \o LibLeg,
           << Ord("M"), Ord("2") >> \o SubSeq(BaExample, 3, 23) \o LibLeg,
           << Ord("X") >> \o Tail(BaExample),
           << Ord("M"), Ord("A") >> \o Drop(BaExample, 2),
           << Ord("M"), Ord("0") >> \o Drop(BaExample, 2),
           Take(BaExample, 5) \o << 195, 167 >> \o Drop(BaExample, 7) }

(* parse_bcbp_type_m as a state machine: one step for each expect_* call. *)

\* Bcbp::from_str: Parser::new(input.scanner())
InitLib ==
    /\ input \in LibInputs
    /\ pc = "expect_format_code"
    /\ rest = << >>
    /\ number_of_legs_encoded = 0
    /\ passenger_name = << >>
    /\ electronic_ticket_indicator = 0
    /\ legs = << >>
    /\ metadata = DefaultConditionalMetadata
    /\ security_data_v = DefaultSecurityData
    /\ nom_err = NoValue
    /\ result = NoValue
    /\ strict = FALSE
    /\ field_value = << >>
    /\ offset = 0
    /\ scanned = << >>
    /\ leg_read = << >>

LibOk == [ok |-> TRUE, error |-> "", panic |-> FALSE]
LibErr(r) == [ok |-> FALSE, error |-> r.err, panic |-> r.panic]

\* The call of the method the decoder is at: `self.expect_..()?`.  On Ok the
\* decoder goes on to `next` (and returns Ok(Bcbp) when that is the end), on
\* Err it returns the error.
Expect(method, r, next) ==
    /\ pc = method
    /\ offset' = r.offset
    /\ scanned' = ScanOf(method, 0, 0, "", r)
    /\ pc' = IF r.ok THEN next ELSE "lib_done"
    /\ result' = IF ~r.ok THEN LibErr(r)
                 ELSE IF next = "lib_done" THEN LibOk ELSE result
    /\ UNCHANGED <<input, rest, metadata, security_data_v, nom_err, strict,
                   field_value>>

\* A call within parse_flight_leg: the value goes into the leg being read.
ExpectOfLeg(method, r, next) ==
    /\ Expect(method, r, next)
    /\ leg_read' = IF r.ok THEN Append(leg_read, << method, r.val >>) ELSE leg_read
    /\ UNCHANGED <<number_of_legs_encoded, passenger_name,
                   electronic_ticket_indicator, legs>>

ExpectFormatCode ==
    LET format == expect_format_code(input, offset)
    IN  /\ pc = "expect_format_code"
        /\ IF format.ok /\ format.val # Ord("M")
           THEN Expect("expect_format_code",
                       ScanFailed(format.offset, "UnsupportedFormat"), "lib_done")
           ELSE Expect("expect_format_code", format,
                       "expect_number_of_legs_encoded")
        /\ UNCHANGED <<number_of_legs_encoded, passenger_name,
                       electronic_ticket_indicator, legs, leg_read>>

ExpectNumberOfLegsEncoded ==
    LET r == expect_number_of_legs_encoded(input, offset)
    IN  /\ Expect("expect_number_of_legs_encoded", r, "expect_passenger_name")
        /\ number_of_legs_encoded' =
              IF r.ok THEN u64_value(r.val) ELSE number_of_legs_encoded
        /\ UNCHANGED <<passenger_name, electronic_ticket_indicator, legs, leg_read>>

ExpectPassengerName ==
    LET r == expect_passenger_name(input, offset)
    IN  /\ Expect("expect_passenger_name", r, "expect_electronic_ticket_indicator")
        /\ passenger_name' = IF r.ok THEN r.val ELSE passenger_name
        /\ UNCHANGED <<number_of_legs_encoded, electronic_ticket_indicator, legs,
                       leg_read>>

\* After the indicator the loop over the legs begins, `for _ in 0 ..
\* number_of_legs_encoded`.
ExpectElectronicTicketIndicator ==
    LET r == expect_electronic_ticket_indicator(input, offset)
    IN  /\ Expect("expect_electronic_ticket_indicator", r,
                  IF number_of_legs_encoded > 0
                  THEN "expect_operating_carrier_pnr_code" ELSE "lib_done")
        /\ electronic_ticket_indicator' =
              IF r.ok THEN r.val ELSE electronic_ticket_indicator
        /\ UNCHANGED <<number_of_legs_encoded, passenger_name, legs, leg_read>>

ExpectOperatingCarrierPnrCode ==
    ExpectOfLeg("expect_operating_carrier_pnr_code",
                expect_operating_carrier_pnr_code(input, offset),
                "expect_from_city_airport_code")

ExpectFromCityAirportCode ==
    ExpectOfLeg("expect_from_city_airport_code",
                expect_from_city_airport_code(input, offset),
                "expect_to_city_airport_code")

ExpectToCityAirportCode ==
    ExpectOfLeg("expect_to_city_airport_code",
                expect_to_city_airport_code(input, offset),
                "expect_operating_carrier_designator")

ExpectOperatingCarrierDesignator ==
    ExpectOfLeg("expect_operating_carrier_designator",
                expect_operating_carrier_designator(input, offset),
                "expect_flight_number")

ExpectFlightNumber ==
    ExpectOfLeg("expect_flight_number", expect_flight_number(input, offset),
                "expect_date_of_flight")

ExpectDateOfFlight ==
    ExpectOfLeg("expect_date_of_flight", expect_date_of_flight(input, offset),
                "expect_compartment_code")

ExpectCompartmentCode ==
    ExpectOfLeg("expect_compartment_code", expect_compartment_code(input, offset),
                "expect_seat_number")

ExpectSeatNumber ==
    ExpectOfLeg("expect_seat_number", expect_seat_number(input, offset),
                "expect_check_in_sequence_number")

ExpectCheckInSequenceNumber ==
    ExpectOfLeg("expect_check_in_sequence_number",
                expect_check_in_sequence_number(input, offset),
                "expect_passenger_status")

\* The last field of a leg: `legs.push(leg)`, and the next turn of the loop.
ExpectPassengerStatus ==
    LET r == expect_passenger_status(input, offset)
    IN  /\ Expect("expect_passenger_status", r,
                  IF Len(legs) + 1 < number_of_legs_encoded
                  THEN "expect_operating_carrier_pnr_code" ELSE "lib_done")
        /\ legs' = IF r.ok
                   THEN Append(legs, Append(leg_read, << "expect_passenger_status", r.val >>))
                   ELSE legs
        /\ leg_read' = IF r.ok THEN << >> ELSE leg_read
        /\ UNCHANGED <<number_of_legs_encoded, passenger_name,
                       electronic_ticket_indicator>>

NextLib ==
    \/ ExpectFormatCode
    \/ ExpectNumberOfLegsEncoded
    \/ ExpectPassengerName
    \/ ExpectElectronicTicketIndicator
    \/ ExpectOperatingCarrierPnrCode
    \/ ExpectFromCityAirportCode
    \/ ExpectToCityAirportCode
    \/ ExpectOperatingCarrierDesignator
    \/ ExpectFlightNumber
    \/ ExpectDateOfFlight
    \/ ExpectCompartmentCode
    \/ ExpectSeatNumber
    \/ ExpectCheckInSequenceNumber
    \/ ExpectPassengerStatus

SpecLib == InitLib /\ [][NextLib]_vars

(* Claims about the decoder of lib.rs *)

LibDone == pc = "lib_done"
LibSucceeded == LibDone /\ result.ok
Expected(method) == scanned # << >> /\ scanned.op = method

\* C25: during a decode the offset never decreases and stays within
\* 0..Len(input), and every field starts where the one before it ended, so
\* no byte is read by two fields.
C25_OffsetIsMonotone ==
    [][ /\ offset' >= offset
        /\ offset >= 0
        /\ offset' <= Len(input)
        /\ scanned'.before = offset
        /\ scanned # << >> => scanned'.before >= scanned.before ]_vars

\* Two legs have been decoded to the end of the input.
C25_Witness ==
    /\ LibSucceeded
    /\ Len(legs) = 2
    /\ offset = Len(input)
    /\ scanned.before = offset - 1

\* The character after the four digits of the flight number just read.
FifthCharacter == next_char(input, scanned.before + 4)
\* C27: when the four digits of the flight number are followed by a
\* character that is neither an uppercase letter nor a space, only the four
\* digits are consumed; when the fifth character is a letter or a space,
\* exactly five are consumed.
C27_FlightNumberWidth ==
    (Expected("expect_flight_number") /\ scanned.ok) =>
        IF /\ FifthCharacter # None
           /\ \/ is_ascii_uppercase(FifthCharacter[1].code)
              \/ FifthCharacter[1].code = Ord(" ")
        THEN offset = scanned.before + 5
        ELSE offset = scanned.before + 4

\* The flight number of the example of tests/guide.rs has been read, and
\* the digit after it has gone with it.
FlightNumberTookADigit ==
    /\ Expected("expect_flight_number")
    /\ scanned.ok
    /\ input = BaExample
    /\ offset = scanned.before + 5
    /\ is_ascii_digit(input[offset])

(* Claims about the layout of a decoded input (de/parser.rs) *)

\* Where the security section starts: after the last leg decoded.
SecurityStart == LegOffset(Len(legs) + 1)
\* The bytes of the security section as the claim counts them: none when
\* there is no section, and else the '^', the type, the 2 digits of the
\* length, and as many bytes as they declare.
SecurityWidth ==
    IF result.value.security_data = DefaultSecurityData THEN 0
    ELSE 4 + (IF IsHex2(Drop(input, SecurityStart + 2))
              THEN Size(Drop(input, SecurityStart + 2)) ELSE 0)

\* C28: whenever the decode succeeds, the length of the input is 23, plus
\* for every leg 37 and the declared size of its conditional section, plus
\* nothing when there is no security section and else 4 and the declared
\* length of the security data.
C28_InputIsTiled ==
    Succeeded => Len(input) = SecurityStart + SecurityWidth

\* Two legs and a security section with a payload have been decoded, the
\* first leg with a conditional section.
C28_Witness ==
    /\ Succeeded
    /\ Len(legs) = 2
    /\ LegOffset(2) > 23 + 37
    /\ result.value.security_data.security_data # None
    /\ SecurityWidth > 4

\* The leg decoded in this step has none of the fields of the repeated
\* section and no airline individual use; the metadata has no unique field.
NoRepeatedFields ==
    /\ \A k \in 1..10 : RepeatedValues(NewLeg)[k] = None
    /\ NewLeg.airline_individual_use = None
NoUniqueFields == \A k \in 1..9 : UniqueValues(metadata')[k] = None
\* from_str returns an error in this step.
Fails == pc' = "done" /\ ~result'.ok

\* The section of the first leg ends after '>', after the version character,
\* or one byte after it.
SectionEndsAfterMarker(n) ==
    /\ LegCarved /\ FirstLeg
    /\ Len(CurrentSection) = n
    /\ CurrentSection[1] = Ord(">")
\* The section of the leg ends n bytes after the place where the size field
\* of the repeated section starts.
SectionEndsAtRepeatedSize(n) ==
    /\ LegCarved
    /\ RepeatedReached(CurrentSection)
    /\ Len(RepeatedPart(CurrentSection)) = n

\* C29: inside a leg's conditional section the version character, the size
\* of the unique section and the size of the repeated section are read only
\* if bytes remain.  When the section ends exactly where one of them would
\* start, the leg decodes with that item absent and its section empty (a
\* section that is only ">" gives no metadata field at all); when exactly
\* one byte is left where a 2-digit size field is expected, decode fails.
C29_ItemsReadOnlyIfBytesRemain ==
    [][ /\ SectionEndsAfterMarker(1) =>
              /\ LegDecoded
              /\ metadata' = DefaultConditionalMetadata
              /\ NoRepeatedFields
        /\ SectionEndsAfterMarker(2) =>
              /\ LegDecoded
              /\ metadata'.version_number = Some(CurrentSection[2])
              /\ NoUniqueFields
              /\ NoRepeatedFields
        /\ SectionEndsAtRepeatedSize(0) =>
              /\ LegDecoded
              /\ NoRepeatedFields
        /\ SectionEndsAfterMarker(3) =>
              /\ Fails
              /\ result'.ctx = "FieldSizeOfStructuredMessageUnique"
        /\ SectionEndsAtRepeatedSize(1) =>
              /\ Fails
              /\ result'.ctx = "FieldSizeOfStructuredMessageRepeated"
      ]_vars

\* A pass of one leg whose section is ">" has been decoded, with no metadata.
C29_Witness ==
    /\ Succeeded
    /\ Len(result.value.legs) = 1
    /\ Len(input) >= 61
    /\ At(58, 2) = Str(<< "0","1" >>)
    /\ input[61] = Ord(">")
    /\ result.value.metadata = DefaultConditionalMetadata

\* Decode has failed on one byte where the size of the unique section, or of
\* the repeated section of a later leg, was expected.
C29_WitnessOneByte ==
    /\ FailedWith("ParseFailed")
    /\ result.ctx = "FieldSizeOfStructuredMessageUnique"
    /\ Len(input) >= 63
    /\ At(58, 2) = Str(<< "0","3" >>)
    /\ result.at = 62

C29_WitnessOneByteRepeated ==
    /\ FailedWith("ParseFailed")
    /\ result.ctx = "FieldSizeOfStructuredMessageRepeated"
    /\ Len(legs) = 1
    /\ result.at = Len(input) - 1 \/ input[result.at + 2] = Ord("^")

-----------------------------------------------------------------------------
(* The decoders together: from_str of de/parser.rs, parse of parser.rs,    *)
(* from_str of lib.rs and the scanner, each on its own inputs.  parse is   *)
(* followed up to its first leg: its one unwrap that can panic is that of  *)
(* the format code, and the legs have no assertion.                        *)

InitDecoders == Init \/ InitStrict \/ InitLib \/ InitScanner
NextDecoders ==
    \/ Next
    \/ Parse
    \/ ParserRoot
    \/ NextLib
    \/ NextScanner
SpecDecoders == InitDecoders /\ [][NextDecoders]_vars

C30_WitnessErrors ==
    \/ FailedWith("ParseFailed") /\ Len(input) < 23 /\ result.kind = "Eof"
    \/ pc = "done" /\ ~result.ok /\ result.error = "UnsupportedFormat" /\ Len(input) >= 60

====
